---- MODULE Spec2Model ----
(***************************************************************************)
(* Model of the Slack ai-message route                                     *)
(* (src/app/api/integrations/slack/send-message/route.ts, third unit of    *)
(* the file, lines 367-715): the route-level command parser parseAICommand *)
(* with its two regular expressions and its channel-name resolution, and   *)
(* the POST handler that validates the body, tries the MCP tool, falls     *)
(* back to parseAICommand + SlackService.sendMessage and answers.  The MCP *)
(* tool and nango.triggerAction are external to the handler: their         *)
(* outcomes are chosen nondeterministically.                               *)
(*                                                                         *)
(* Further specifications over the same variables: SpecParser (a series of *)
(* parseAICommand calls), SpecTool (the slack_ai_message tool of           *)
(* src/mcp/slack/index.ts), SpecRegistry and SpecReload (AIBrainMCP-       *)
(* Interface and MCPToolRegistry of src/mcp/index.ts), SpecWebhook (the    *)
(* two Nango webhook routes), SpecServer (concurrent calls of              *)
(* SlackMCPServer.executeTool on one SlackService), SpecRoutes (one        *)
(* request to the ai-message, send-message, channels or health route) and  *)
(* SpecRetry (RetryManager.withRetry and IntegrationUtils.retry).          *)
(*                                                                         *)
(* Text is modelled by TLA+ strings; the character at position i of s is   *)
(* SubSeq(s, i, i).  Regular expressions are translated with JavaScript's  *)
(* backtracking order: leftmost start, greedy quantifiers from the longest *)
(* repetition down, lazy ones from the shortest up, alternatives and       *)
(* optional groups in written order.                                       *)
(***************************************************************************)
EXTENDS Integers, Sequences, FiniteSets, TLC

\* ------------------------------------------------------------------------
\* Characters
\* ------------------------------------------------------------------------

\* U+0060 (backtick).  The character cannot be written inside a TLA+ string
\* literal, so this one character stands for it everywhere in the model.
Backtick == "~"

\* The character class ['"`] of pattern1 and pattern2.
QuoteChars == {"'", "\"", Backtick}

\* \s of the regular expressions and the characters String.prototype.trim
\* removes: both are WhiteSpace + LineTerminator (space, tab, newline here).
WhiteSpace == {" ", "\t", "\n"}

\* '.' matches every character except a line terminator.
LineTerminators == {"\n"}

UpperAlpha == "ABCDEFGHIJKLMNOPQRSTUVWXYZ"
LowerAlpha == "abcdefghijklmnopqrstuvwxyz"

Ch(s, i) == SubSeq(s, i, i)

IsWs(c) == c \in WhiteSpace
IsQuote(c) == c \in QuoteChars

\* ------------------------------------------------------------------------
\* String methods used by parseAICommand
\* ------------------------------------------------------------------------

\* The lower-case letter of every upper-case letter.
LowerOf ==
    [c \in {Ch(UpperAlpha, i) : i \in 1..26} |->
        Ch(LowerAlpha, CHOOSE i \in 1..26 : Ch(UpperAlpha, i) = c)]

LowerChar(c) == IF c \in DOMAIN LowerOf THEN LowerOf[c] ELSE c

RECURSIVE toLowerCase(_)
toLowerCase(s) ==
    IF s = "" THEN ""
    ELSE LowerChar(Ch(s, 1)) \o toLowerCase(SubSeq(s, 2, Len(s)))

\* Length of the longest run of characters of class that starts at i; the
\* class is the set cs when inside holds and its complement otherwise.
RECURSIVE RunLen(_, _, _, _)
RunLen(s, i, cs, inside) ==
    IF i <= Len(s) /\ ((Ch(s, i) \in cs) = inside)
    THEN 1 + RunLen(s, i + 1, cs, inside) ELSE 0

WsRun(s, i) == RunLen(s, i, WhiteSpace, TRUE)        \* \s+
NotQuoteRun(s, i) == RunLen(s, i, QuoteChars, FALSE)  \* [^'"`]+
DotRun(s, i) == RunLen(s, i, LineTerminators, FALSE)  \* .+

\* Length of the run of white space that ends at the last character of s.
RECURSIVE TrailingWs(_)
TrailingWs(s) ==
    IF s # "" /\ IsWs(Ch(s, Len(s)))
    THEN 1 + TrailingWs(SubSeq(s, 1, Len(s) - 1)) ELSE 0

trim(s) ==
    LET lead == WsRun(s, 1)
    IN  IF lead = Len(s) THEN ""
        ELSE SubSeq(s, lead + 1, Len(s) - TrailingWs(s))

\* The literal lit occurs in s at position i.
LitAt(s, i, lit) ==
    /\ i >= 1
    /\ i + Len(lit) - 1 <= Len(s)
    /\ SubSeq(s, i, i + Len(lit) - 1) = lit

startsWith(s, p) == LitAt(s, 1, p)

includes(s, p) == \E i \in 1..(Len(s) + 1) : LitAt(s, i, p)

\* Position of the first occurrence of p in s, 0 when there is none.
indexOf(s, p) ==
    IF includes(s, p)
    THEN CHOOSE i \in 1..(Len(s) + 1) :
            LitAt(s, i, p) /\ \A j \in 1..(i - 1) : ~LitAt(s, j, p)
    ELSE 0

\* channel.split('/') : the list of the segments between the slashes.
RECURSIVE split(_, _)
split(s, sep) ==
    LET at == indexOf(s, sep)
    IN  IF at = 0 THEN <<s>>
        ELSE <<SubSeq(s, 1, at - 1)>>
                \o split(SubSeq(s, at + Len(sep), Len(s)), sep)

\* ------------------------------------------------------------------------
\* Regular-expression matching
\* ------------------------------------------------------------------------

\* A match result: ok, and the two capture groups.
NoMatch == [ok |-> FALSE, g1 |-> "", g2 |-> ""]
Match(a, b) == [ok |-> TRUE, g1 |-> a, g2 |-> b]

\* First success of the attempts F[x], x taken upwards through DOMAIN F (a
\* lazy quantifier, or the scan for the leftmost start position).
FirstAsc(F) ==
    LET S == {x \in DOMAIN F : F[x].ok}
    IN  IF S = {} THEN NoMatch
        ELSE F[CHOOSE x \in S : \A y \in S : x <= y]

\* First success of the attempts F[x], x taken downwards through DOMAIN F (a
\* greedy quantifier that gives characters back one at a time).
FirstDesc(F) ==
    LET S == {x \in DOMAIN F : F[x].ok}
    IN  IF S = {} THEN NoMatch
        ELSE F[CHOOSE x \in S : \A y \in S : x >= y]

\* (?:send|message)\s+['"`]([^'"`]+)['"`]\s+to\s+(.+)  tried at position j.
\* \s+ before a quote or before "to", and [^'"`]+ before a quote, can only
\* succeed with their longest repetition (the next character has to be
\* outside the repeated class); \s+ before (.+) gives white space back.
p1Verb(s, j) ==
    LET v  == IF LitAt(s, j, "send") THEN 4
              ELSE IF LitAt(s, j, "message") THEN 7 ELSE 0
        k  == j + v
        w1 == WsRun(s, k)
        b  == k + w1 + 1
        n  == NotQuoteRun(s, b)
        c  == b + n
        w2 == WsRun(s, c + 1)
        t  == c + 1 + w2
        p  == t + 2
        w3 == WsRun(s, p)
    IN  IF /\ v > 0
           /\ w1 >= 1
           /\ b - 1 <= Len(s) /\ IsQuote(Ch(s, b - 1))
           /\ n >= 1
           /\ c <= Len(s) /\ IsQuote(Ch(s, c))
           /\ w2 >= 1
           /\ LitAt(s, t, "to")
        THEN FirstDesc([w \in 1..w3 |->
                LET d == DotRun(s, p + w)
                IN  IF d >= 1
                    THEN Match(SubSeq(s, b, c - 1),
                               SubSeq(s, p + w, p + w + d - 1))
                    ELSE NoMatch])
        ELSE NoMatch

\* (?:hey\s+)? first with the group, then without it.
p1At(s, i) ==
    LET h == WsRun(s, i + 3)
        withHey == IF LitAt(s, i, "hey") /\ h >= 1
                   THEN p1Verb(s, i + 3 + h) ELSE NoMatch
    IN  IF withHey.ok THEN withHey ELSE p1Verb(s, i)

\* command.match(pattern1): the match at the leftmost position that has one.
pattern1(s) == FirstAsc([i \in 1..Len(s) |-> p1At(s, i)])

\* ['"`]?([^'"`]+)['"`]?$  tried at position p.  The opening quote is taken
\* when there is one ([^'"`]+ cannot start on a quote), the body is the
\* longest run of non-quote characters (a shorter one is followed by a
\* non-quote character, which is neither the closing quote nor the end), and
\* after it comes the end of the input or one quote and the end.
p2Tail(s, p) ==
    LET b == IF p <= Len(s) /\ IsQuote(Ch(s, p)) THEN p + 1 ELSE p
        n == NotQuoteRun(s, b)
        e == b + n
    IN  IF /\ n >= 1
           /\ \/ e = Len(s) + 1
              \/ e = Len(s) /\ IsQuote(Ch(s, e))
        THEN Match("", SubSeq(s, b, e - 1))
        ELSE NoMatch

\* (?:that\s+)?  then the tail, tried at position q: with the group (its \s+
\* from the longest run down), then without it.
p2That(s, q) ==
    LET withThat == IF LitAt(s, q, "that")
                    THEN FirstDesc([w \in 1..WsRun(s, q + 4) |->
                                        p2Tail(s, q + 4 + w)])
                    ELSE NoMatch
    IN  IF withThat.ok THEN withThat ELSE p2Tail(s, q)

\* \s+(?:that\s+)?['"`]?([^'"`]+)['"`]?$  tried at position p.
p2Rest(s, p) ==
    FirstDesc([w \in 1..WsRun(s, p) |-> p2That(s, p + w)])

\* (?:tell|notify)\s+(.+?)\s+...  tried at position i: the \s+ after the verb
\* from the longest run down, the lazy (.+?) from one character up.
p2At(s, i) ==
    LET v == IF LitAt(s, i, "tell") THEN 4
             ELSE IF LitAt(s, i, "notify") THEN 6 ELSE 0
        k == i + v
    IN  IF v = 0 THEN NoMatch
        ELSE FirstDesc([w \in 1..WsRun(s, k) |->
                LET a == k + w
                IN  FirstAsc([e \in a..(a + DotRun(s, a) - 1) |->
                        LET r == p2Rest(s, e + 1)
                        IN  IF r.ok THEN Match(SubSeq(s, a, e), r.g2)
                            ELSE NoMatch])])

\* command.match(pattern2)
pattern2(s) == FirstAsc([i \in 1..Len(s) |-> p2At(s, i)])

\* (?:\s+channel)?$  holds at position p.
cmEnd(s, p) ==
    \/ \E w \in 1..WsRun(s, p) :
          LitAt(s, p + w, "channel") /\ p + w + 7 = Len(s) + 1
    \/ p = Len(s) + 1

\* (.+?)(?:\s+channel)?$  with the group starting at position a.
cmGroup(s, a) ==
    FirstAsc([e \in a..(a + DotRun(s, a) - 1) |->
        IF cmEnd(s, e + 1) THEN Match(SubSeq(s, a, e), "") ELSE NoMatch])

\* (?:the\s+)?  then the group, tried at position q.
cmThe(s, q) ==
    LET withThe == IF LitAt(s, q, "the")
                   THEN FirstDesc([w \in 1..WsRun(s, q + 3) |->
                                        cmGroup(s, q + 3 + w)])
                   ELSE NoMatch
    IN  IF withThe.ok THEN withThe ELSE cmGroup(s, q)

\* (?:in\s+)?(?:the\s+)?(.+?)(?:\s+channel)?$  tried at position i.
cmAt(s, i) ==
    LET withIn == IF LitAt(s, i, "in")
                  THEN FirstDesc([w \in 1..WsRun(s, i + 2) |->
                                        cmThe(s, i + 2 + w)])
                  ELSE NoMatch
    IN  IF withIn.ok THEN withIn ELSE cmThe(s, i)

\* channelPart.match(/(?:in\s+)?(?:the\s+)?(.+?)(?:\s+channel)?$/)
channelMatch(s) == FirstAsc([i \in 1..Len(s) |-> cmAt(s, i)])

\* ------------------------------------------------------------------------
\* parseAICommand: channel-name resolution
\* ------------------------------------------------------------------------

\* .replace(/^(the\s+|a\s+|an\s+)/, '')
removeArticle(s) ==
    LET cut(n) == SubSeq(s, n + WsRun(s, n + 1) + 1, Len(s))
    IN  IF LitAt(s, 1, "the") /\ WsRun(s, 4) >= 1 THEN cut(3)
        ELSE IF LitAt(s, 1, "a") /\ WsRun(s, 2) >= 1 THEN cut(1)
        ELSE IF LitAt(s, 1, "an") /\ WsRun(s, 3) >= 1 THEN cut(2)
        ELSE s

\* .replace(/\s+word$/, ''): the leftmost match starts where the run of
\* white space in front of the final word starts.
removeTrailing(s, word) ==
    LET p == Len(s) - Len(word) + 1
        w == IF p >= 1 THEN TrailingWs(SubSeq(s, 1, p - 1)) ELSE 0
    IN  IF LitAt(s, p, word) /\ w >= 1 THEN SubSeq(s, 1, p - 1 - w) ELSE s

\* .replace(/\s+/, '-'): the pattern has no g flag, so only the first run of
\* white space is replaced.
hyphenate(s) ==
    LET S == {i \in 1..Len(s) : IsWs(Ch(s, i))}
        i == CHOOSE x \in S : \A y \in S : x <= y
    IN  IF S = {} THEN s
        ELSE SubSeq(s, 1, i - 1) \o "-" \o SubSeq(s, i + WsRun(s, i), Len(s))

cleanChannel(channel) ==
    trim(hyphenate(removeTrailing(removeTrailing(
            removeArticle(toLowerCase(channel)), "channel"), "room")))

\* The channelMappings object literal.
channelMappings ==
    [development |-> "dev", developer |-> "dev", developers |-> "dev",
     programming |-> "dev", coding |-> "dev", general |-> "general",
     random |-> "random", team |-> "team",
     announcements |-> "announcements", announce |-> "announcements",
     marketing |-> "marketing", sales |-> "sales", support |-> "support",
     help |-> "support", design |-> "design", product |-> "product",
     engineering |-> "engineering", tech |-> "tech", technology |-> "tech"]

\* What `#${channelMappings[key]}` interpolates for the two lower-case keys
\* every object literal inherits from Object.prototype.
inheritedKeys ==
    [constructor |-> "function Object() { [native code] }",
     __proto__ |-> "[object Object]"]

\* applyMapping without the lookup: the cleaned phrase is kept as it is.
applyMapping_noLookup(key) == key

\* if (channelMappings[cleanChannel]) cleanChannel = channelMappings[...]
applyMapping(key) ==
    IF key \in DOMAIN channelMappings THEN channelMappings[key]
    ELSE IF key \in DOMAIN inheritedKeys THEN inheritedKeys[key]
    ELSE key

\* The condition shared by both patterns' prefix checks.
hasPrefix(channel) ==
    \/ startsWith(channel, "#")
    \/ startsWith(channel, "@")
    \/ startsWith(channel, "C")
    \/ startsWith(channel, "D")

\* if (channel.includes('/')) { ... }
slashHandling(channel) ==
    IF includes(channel, "/")
    THEN LET parts == split(channel, "/")
         IN  IF Len(parts) > 1 /\ includes(parts[2], "channel")
             THEN LET cm == channelMatch(parts[2])
                  IN  IF cm.ok THEN trim(cm.g1) ELSE channel
             ELSE "@" \o parts[1]
    ELSE channel

\* "Smart channel name extraction from natural language"
smartChannel(channel) ==
    IF ~hasPrefix(channel)
    THEN "#" \o applyMapping(cleanChannel(channel))
    ELSE channel

\* The results of parseAICommand.
Null == [isNull |-> TRUE, message |-> "", channel |-> ""]
Parsed(m, c) == [isNull |-> FALSE, message |-> m, channel |-> c]

\* The body of  if (match1) { ... }
match1Result(match1) ==
    Parsed(trim(match1.g1), smartChannel(slashHandling(trim(match1.g2))))

\* The body of  if (match2) { ... }
match2Result(match2) ==
    LET channel == trim(match2.g1)
    IN  Parsed(trim(match2.g2),
               IF ~hasPrefix(channel) THEN "#" \o channel ELSE channel)

\* parseAICommand with a silent default in place of  return null .
parseAICommand_silentDefault(input) ==
    LET command == trim(toLowerCase(input))
        match1  == pattern1(command)
        match2  == pattern2(command)
    IN  IF match1.ok THEN match1Result(match1)
        ELSE IF match2.ok THEN match2Result(match2)
        ELSE Parsed(command, "#general")

\* parseAICommand with pattern2 tried before pattern1.
parseAICommand_pattern2First(input) ==
    LET command == trim(toLowerCase(input))
        match1  == pattern1(command)
        match2  == pattern2(command)
    IN  IF match2.ok THEN match2Result(match2)
        ELSE IF match1.ok THEN match1Result(match1)
        ELSE Null

parseAICommand(input) ==
    LET command == trim(toLowerCase(input))
        match1  == pattern1(command)
        match2  == pattern2(command)
    IN  IF match1.ok THEN match1Result(match1)
        ELSE IF match2.ok THEN match2Result(match2)
        ELSE Null

\* ------------------------------------------------------------------------
\* Requests: the instructions the handler is run on
\* ------------------------------------------------------------------------

\* Longest target phrase and longest message, in words.
MaxTargetWords == 3
MaxMsgWords == 2

\* All texts of 1..n words of vocab, separated by single spaces.
RECURSIVE Phrases(_, _)
Phrases(vocab, n) ==
    IF n = 0 THEN {}
    ELSE vocab \cup {p \o " " \o w : p \in Phrases(vocab, n - 1), w \in vocab}

TargetPhrases == Phrases({"the", "development", "channel"}, MaxTargetWords)
SigilTargets == {"#general", "#General", "@john", "@John"}
OpaqueIds == {"C0123456789", "D0123456789"}
SlashTargets ==
    {"bob/x", "Bob /team", "bob/ in the dev channel", "/x", "#general/x"}
        \cup {"bob/" \o pre \o p : pre \in {"", "in "}, p \in TargetPhrases}

\* Every key of channelMappings as a target, bare and as "the <key> channel",
\* and targets that are no key of it.
KeyTargets ==
    {pre \o k \o post :
        pre \in {"", "the "}, post \in {"", " channel"},
        k \in DOMAIN channelMappings}
UnlistedTargets ==
    {"Developers", "a team room", "an announce room", "bowling club",
     "development team", "constructor", "__proto__", "the lobby room"}

Messages == Phrases({"Hello", "team!"}, MaxMsgWords)
BlankMessages == {"", " "}

\* send|message '<M>' to <target>
SendCommands ==
    {h \o " '" \o m \o "' to " \o t :
        h \in {"send", "Hey message"},
        m \in Messages \cup BlankMessages,
        t \in SigilTargets \cup OpaqueIds}
    \cup {"send 'Hello' to " \o t : t \in TargetPhrases \cup SlashTargets}
    \cup {"message 'Hello' to " \o t : t \in KeyTargets \cup UnlistedTargets}
    \cup {"send 'Good morning' to the development channel"}

\* send <q1>M<q2> to #general, for every pair of quote characters
QuoteCommands ==
    {"send " \o q1 \o m \o q2 \o " to #general" :
        q1 \in QuoteChars, q2 \in QuoteChars, m \in Messages}

\* tell|notify <target> [that] <message>, the message quoted or not
TellCommands ==
    {"tell #general" \o mid \o m :
        mid \in {" ", " that "},
        m \in Messages
                \cup {"'" \o x \o "'" : x \in Messages \cup BlankMessages}}
    \cup {"tell " \o t \o " that Hello" :
            t \in TargetPhrases \cup SigilTargets \cup OpaqueIds}
    \cup {"Notify " \o t \o " 'Hello'" :
            t \in TargetPhrases \cup SigilTargets \cup OpaqueIds}

\* instructions with a tell/notify clause and a send '<text>' to clause
BothCommands ==
    {"tell bob to send 'x' to #general", "send 'x' to tell bob hi",
     "notify the team message 'Hello' to @john now"}

\* instructions with no recognizable verb or shape
OtherCommands ==
    {"xyzzy plugh", "send Hello to #general", "send 'Hello' #general",
     "tell", "please notify", "send 'x' to a\nb", "tell   x"}
        \cup TargetPhrases

Commands ==
    SendCommands \cup QuoteCommands \cup TellCommands
        \cup BothCommands \cup OtherCommands

\* Request bodies.  An absent field and an empty string are both falsy, and
\* the handler tests the fields with `!`: "" stands for both.
Bodies ==
    [nangoConnectionId : {"", "conn-1"}, command : Commands \cup {""}]

\* ------------------------------------------------------------------------
\* SlackService.sendMessage and the responses of the route
\* ------------------------------------------------------------------------

\* Outcomes of executeMCPTool('slack-mcp', 'slack_ai_message', ...) as the
\* handler tells them apart: the module is not available, the tool call
\* threw, the tool returned an isError result, the tool returned a result.
MCPOutcomes == {"unavailable", "threw", "isError", "ok"}

\* Outcomes of nango.triggerAction('slack', id, 'send-message', ...).
NangoOutcomes ==
    {"ok", "channel_not_found", "not_in_channel", "token_expired", "throws"}

\* SendMessageSchema: channel and text are strings of at least 1 character.
validSendMessage(request) == request.channel # "" /\ request.text # ""

\* The IntegrationResponse of SlackService.sendMessage: a request that fails
\* validation and a triggerAction that fails or throws all give API_ERROR.
sendMessage(request, outcome) ==
    IF ~validSendMessage(request)
    THEN [success |-> FALSE, code |-> "API_ERROR", error |-> "validation"]
    ELSE IF outcome = "ok"
    THEN [success |-> TRUE, code |-> "", error |-> ""]
    ELSE [success |-> FALSE, code |-> "API_ERROR", error |-> outcome]

\* details.examples of the 'Could not understand the command' response.
examples ==
    <<"send 'Hello team!' to #general",
      "message 'Meeting in 5 minutes' to @john",
      "send 'Good morning' to the development channel">>

NoResponse ==
    [status |-> 0, success |-> FALSE, code |-> "", message |-> "",
     examples |-> <<>>, extractedMessage |-> "", extractedChannel |-> ""]

Response(status, success, code, message) ==
    [NoResponse EXCEPT !.status = status, !.success = success,
                       !.code = code, !.message = message]

\* The message of the response to a failed send.
failureMessage(error) ==
    IF error = "channel_not_found" THEN "Channel not found or not accessible"
    ELSE IF error = "not_in_channel" THEN "You're not a member of channel"
    ELSE "Failed to send message"

\* The response to the result of slackService.sendMessage.
sendResponse(result, p) ==
    [(IF result.success
      THEN Response(200, TRUE, "", "")
      ELSE Response(IF result.code = "AUTHENTICATION_FAILED" THEN 401 ELSE 400,
                    FALSE, result.code, failureMessage(result.error)))
        EXCEPT !.extractedMessage = p.message, !.extractedChannel = p.channel]

\* ------------------------------------------------------------------------
\* POST /api/integrations/slack/ai-message
\* ------------------------------------------------------------------------

VARIABLES
    pc,            \* position of the handler
    body,          \* the request body
    mcpResult,     \* outcome of the MCP attempt, "" before it
    parsed,        \* result of parseAICommand on the fallback path
    sendCalls,     \* requests passed to slackService.sendMessage
    triggerCalls,  \* requests passed on to nango.triggerAction
    response       \* the response of the handler

routeVars == <<pc, body, mcpResult, parsed, sendCalls, triggerCalls, response>>

\* A series of calls of parseAICommand in one process.
VARIABLES
    pCalls,        \* the calls made so far: argument and returned value
    pLastIndex,    \* lastIndex of the pattern objects after the latest call
    pTable         \* channelMappings as the latest call left it

parserVars == <<pCalls, pLastIndex, pTable>>

\* SlackMCPServer.handleAIMessage: one call of the slack_ai_message tool.
VARIABLES
    tPc,           \* position of the tool handler
    tCommand,      \* args.command
    tParsed,       \* result of SlackMCPServer.parseAICommand
    tSendCalls,    \* requests passed to slackService.sendMessage
    tResult        \* the MCPToolResult, or the error thrown

toolVars == <<tPc, tCommand, tParsed, tSendCalls, tResult>>

\* AIBrainMCPInterface, MCPConfigManager and MCPToolRegistry: the process's
\* configuration, the two initialized flags, the registry's maps, and the
\* callers that are inside executeMCPTool.
VARIABLES
    deploy,            \* mcp/config.json and the environment of the process
    ifaceInitialized,  \* AIBrainMCPInterface.initialized
    regInitialized,    \* MCPToolRegistry.initialized
    regServers,        \* keys of MCPToolRegistry.servers
    regTools,          \* keys of MCPToolRegistry.tools
    created,           \* number of createServer calls that returned a server
    registered,        \* number of registerServer calls
    indexed,           \* number of buildToolIndex runs
    cpc,               \* position of every caller
    cConfigs,          \* every caller's local serverConfigs
    cResult            \* what every caller's executeTool came to

registryVars ==
    <<deploy, ifaceInitialized, regInitialized, regServers, regTools,
      created, registered, indexed, cpc, cConfigs, cResult>>

\* The two Nango webhook endpoints: one delivery to one of them.
VARIABLES
    wPc,           \* position of the webhook handler
    wRoute,        \* the endpoint the delivery went to
    wEvent,        \* the delivered body
    wBranch,       \* the branch of the handler that logged the event
    wResponse      \* the response of the handler

webhookVars == <<wPc, wRoute, wEvent, wBranch, wResponse>>

\* One SlackMCPServer with its single SlackService, and the calls of
\* SlackMCPServer.executeTool that are in flight.
VARIABLES
    serverBuilt,          \* the constructor has run
    defaultConnectionId,  \* SlackMCPServer.defaultConnectionId, "" = undefined
    serviceConfig,        \* slackService.config.nangoConnectionId, "" = none
    ePc,                  \* position of every call
    eName,                \* every call's tool name
    eArgs,                \* every call's args.connectionId, "" = absent
    eConnectionId,        \* every call's local connectionId
    eRequests,            \* the requests every call handed to Nango
    eResult               \* what every call returned or threw

serverVars ==
    <<serverBuilt, defaultConnectionId, serviceConfig, ePc, eName, eArgs,
      eConnectionId, eRequests, eResult>>

\* POST of the send-message, channels and health routes: one request.
VARIABLES
    rPc,            \* position of the handler
    rRoute,         \* the route the request went to
    rBody,          \* the request body
    rSecretKey,     \* NANGO_SECRET_KEY is set
    rMcp,           \* outcome of the MCP attempt, "" before it
    rServiceCalls,  \* methods of the SlackService the handler called
    rTrigger,       \* requests the fallback passed on to nango.triggerAction
    rOutcome,       \* what Nango answered to the fallback, "" before it
    rResponse       \* the response of the handler

slackRouteVars ==
    <<rPc, rRoute, rBody, rSecretKey, rMcp, rServiceCalls, rTrigger,
      rOutcome, rResponse>>

\* One call of RetryManager.withRetry or IntegrationUtils.retry.
VARIABLES
    retryPc,       \* position inside the loop
    retryFn,       \* the helper that was called
    retryOptions,  \* the options after destructuring with defaults
    attempt,       \* the loop variable
    invocations,   \* number of calls of fn so far
    lastError,     \* code of the error fn threw last, "" before any
    waits,         \* the delays waited so far, in milliseconds
    retryResult    \* what the helper returned or threw

retryVars ==
    <<retryPc, retryFn, retryOptions, attempt, invocations, lastError,
      waits, retryResult>>

\* MCPToolRegistry.reload(): "idle" while it was never called, "servers"
\* while the initialize it calls is suspended before the loop over the
\* configurations, "returned" after it.
VARIABLE reloadPc

\* The variables of the remaining components.
extraVars == <<webhookVars, serverVars, slackRouteVars, retryVars, reloadPc>>

\* The variables the route handler does not touch.
nonRouteVars == <<parserVars, toolVars, registryVars, extraVars>>

vars == <<routeVars, parserVars, toolVars, registryVars, extraVars>>

NoBody == [nangoConnectionId |-> "", command |-> ""]

\* The handler before a request.
RouteInit ==
    /\ pc = "idle"
    /\ body = NoBody
    /\ mcpResult = ""
    /\ parsed = Null
    /\ sendCalls = <<>>
    /\ triggerCalls = <<>>
    /\ response = NoResponse

\* No call of parseAICommand yet.
ParserInit ==
    /\ pCalls = <<>>
    /\ pLastIndex = 0
    /\ pTable = channelMappings

\* The tool before a call: no result, nothing parsed ("" is undefined).
NoParse == [channel |-> "", message |-> ""]
NoResult == [isError |-> FALSE, text |-> ""]

ToolInit ==
    /\ tPc = "idle"
    /\ tCommand = ""
    /\ tParsed = NoParse
    /\ tSendCalls = <<>>
    /\ tResult = NoResult

\* Number of callers that can be inside executeMCPTool at the same time.
NumCallers == 2
Callers == 1..NumCallers

\* A cold process: module-level singletons as their constructors leave them
\* (initialized = false, empty maps), no caller inside.
RegistryCold ==
    /\ ifaceInitialized = FALSE
    /\ regInitialized = FALSE
    /\ regServers = {}
    /\ regTools = {}
    /\ created = 0
    /\ registered = 0
    /\ indexed = 0
    /\ cpc = [c \in Callers |-> "idle"]
    /\ cConfigs = [c \in Callers |-> <<>>]
    /\ cResult = [c \in Callers |-> ""]

\* A deployment: servers.slack.enabled of mcp/config.json, the enabled flag
\* of a second entry (of a type the registry does not know), and whether
\* NANGO_SECRET_KEY is set.
Deployments ==
    [slackEnabled : BOOLEAN, otherEnabled : BOOLEAN, nangoKey : BOOLEAN]

\* The deployment of the summary: Slack enabled, NANGO_SECRET_KEY set.
DocumentedDeployment ==
    [slackEnabled |-> TRUE, otherEnabled |-> FALSE, nangoKey |-> TRUE]

\* No webhook delivery yet.
NoEvent == [kind |-> "none"]
NoWebhookResponse == [status |-> 0, received |-> FALSE, error |-> ""]

WebhookInit ==
    /\ wPc = "idle"
    /\ wRoute = ""
    /\ wEvent = NoEvent
    /\ wBranch = ""
    /\ wResponse = NoWebhookResponse

\* No SlackMCPServer yet, no call in flight.
ServerInit ==
    /\ serverBuilt = FALSE
    /\ defaultConnectionId = ""
    /\ serviceConfig = ""
    /\ ePc = [c \in Callers |-> "idle"]
    /\ eName = [c \in Callers |-> ""]
    /\ eArgs = [c \in Callers |-> ""]
    /\ eConnectionId = [c \in Callers |-> ""]
    /\ eRequests = [c \in Callers |-> {}]
    /\ eResult = [c \in Callers |-> ""]

\* The three routes before a request.
NoRouteBody == [nangoConnectionId |-> "", channel |-> "", text |-> ""]

SlackRouteInit ==
    /\ rPc = "idle"
    /\ rRoute = ""
    /\ rBody = NoRouteBody
    /\ rSecretKey = TRUE
    /\ rMcp = ""
    /\ rServiceCalls = <<>>
    /\ rTrigger = <<>>
    /\ rOutcome = ""
    /\ rResponse = NoResponse

\* The options of a retry helper called with {}: the defaults of the
\* destructuring ("default" is SlackErrorHandler.shouldRetry, taken off its
\* class).
DefaultOptions ==
    [maxAttempts |-> 3, baseDelay |-> 1000, maxDelay |-> 10000,
     backoffFactor |-> 2, shouldRetry |-> "default"]

NoRetryResult == [kind |-> "", error |-> ""]

\* No retry helper called yet.
RetryInit ==
    /\ retryPc = "idle"
    /\ retryFn = ""
    /\ retryOptions = DefaultOptions
    /\ attempt = 0
    /\ invocations = 0
    /\ lastError = ""
    /\ waits = <<>>
    /\ retryResult = NoRetryResult

\* The remaining components before anything reached them.
ExtraInit ==
    /\ WebhookInit
    /\ ServerInit
    /\ SlackRouteInit
    /\ RetryInit
    /\ reloadPc = "idle"

Init ==
    /\ RouteInit
    /\ ParserInit
    /\ ToolInit
    /\ RegistryCold
    /\ deploy = DocumentedDeployment
    /\ ExtraInit

\* request.json() rejects: the outer catch answers 500.
ReceiveInvalid ==
    /\ pc = "idle"
    /\ pc' = "done"
    /\ response' = Response(500, FALSE, "API_ERROR", "Internal server error")
    /\ UNCHANGED <<body, mcpResult, parsed, sendCalls, triggerCalls>>
    /\ UNCHANGED nonRouteVars

\* The body is read and its two required fields are tested.
Receive(b) ==
    /\ pc = "idle"
    /\ body' = b
    /\ IF b.nangoConnectionId = ""
       THEN /\ pc' = "done"
            /\ response' = Response(400, FALSE, "MISSING_REQUIRED_FIELD",
                                    "nangoConnectionId is required")
       ELSE IF b.command = ""
       THEN /\ pc' = "done"
            /\ response' = Response(400, FALSE, "MISSING_REQUIRED_FIELD",
                                    "command is required")
       ELSE /\ pc' = "mcp"
            /\ UNCHANGED response
    /\ UNCHANGED <<mcpResult, parsed, sendCalls, triggerCalls>>
    /\ UNCHANGED nonRouteVars

\* The MCP attempt with its result ignored: the fallback runs in any case.
TryMCP_alwaysFallsBack(outcome) ==
    /\ pc = "mcp"
    /\ mcpResult' = outcome
    /\ pc' = "fallback"
    /\ UNCHANGED response
    /\ UNCHANGED <<body, parsed, sendCalls, triggerCalls>>
    /\ UNCHANGED nonRouteVars

\* "Try MCP first": a non-error result is answered at once, everything else
\* falls through to the SlackService fallback.
TryMCP(outcome) ==
    /\ pc = "mcp"
    /\ mcpResult' = outcome
    /\ IF outcome = "ok"
       THEN /\ pc' = "done"
            /\ response' = Response(200, TRUE, "", "")
       ELSE /\ pc' = "fallback"
            /\ UNCHANGED response
    /\ UNCHANGED <<body, parsed, sendCalls, triggerCalls>>
    /\ UNCHANGED nonRouteVars

\* "Fallback: Parse the AI command manually and use SlackService", up to the
\* await of slackService.initialize.  secretKey: NANGO_SECRET_KEY is set.
Fallback(secretKey) ==
    /\ pc = "fallback"
    /\ parsed' = parseAICommand(body.command)
    /\ IF parsed'.isNull
       THEN /\ pc' = "done"
            /\ response' =
                 [Response(400, FALSE, "INVALID_REQUEST",
                           "Could not understand the command")
                    EXCEPT !.examples = examples]
       ELSE IF ~secretKey
       THEN /\ pc' = "done"
            /\ response' = Response(500, FALSE, "API_ERROR",
                                    "Internal server error")
       ELSE /\ pc' = "send"
            /\ UNCHANGED response
    /\ UNCHANGED <<body, mcpResult, sendCalls, triggerCalls>>
    /\ UNCHANGED nonRouteVars

\* slackService.sendMessage({channel, text}) and the response to its result.
Send(outcome) ==
    LET request == [channel |-> parsed.channel, text |-> parsed.message]
    IN  /\ pc = "send"
        /\ sendCalls' = Append(sendCalls, request)
        /\ triggerCalls' = IF validSendMessage(request)
                           THEN Append(triggerCalls, request)
                           ELSE triggerCalls
        /\ response' = sendResponse(sendMessage(request, outcome), parsed)
        /\ pc' = "done"
        /\ UNCHANGED <<body, mcpResult, parsed>>
        /\ UNCHANGED nonRouteVars

\* The response is returned; the next request starts from a fresh handler.
Respond ==
    /\ pc = "done"
    /\ pc' = "idle"
    /\ body' = NoBody
    /\ mcpResult' = ""
    /\ parsed' = Null
    /\ sendCalls' = <<>>
    /\ triggerCalls' = <<>>
    /\ response' = NoResponse
    /\ UNCHANGED nonRouteVars

Next ==
    \/ ReceiveInvalid
    \/ \E b \in Bodies : Receive(b)
    \/ \E outcome \in MCPOutcomes : TryMCP(outcome)
    \/ \E secretKey \in BOOLEAN : Fallback(secretKey)
    \/ \E outcome \in NangoOutcomes : Send(outcome)
    \/ Respond

Spec == Init /\ [][Next]_vars

\* ------------------------------------------------------------------------
\* parseAICommand called several times in one process
\* ------------------------------------------------------------------------

\* Number of calls in a series.
MaxCalls == 3

\* The instructions of the series.
ParserInputs ==
    {"send 'Hello team!' to #general",
     "Notify the development channel 'Hello'",
     "send 'Hello' to the development channel",
     "message 'Hello' to bob/ in the dev channel",
     "tell bob to send 'x' to #general",
     "xyzzy plugh"}

\* A call with pattern objects that outlive the call and resume matching at
\* their lastIndex (module-level patterns with the g flag, used with exec):
\* a call that follows a match starts behind the end of the text and fails.
ParseCall_stickyRegExp(input) ==
    LET result == IF pLastIndex = 0 THEN parseAICommand(input) ELSE Null
    IN  /\ Len(pCalls) < MaxCalls
        /\ pCalls' = Append(pCalls, [input |-> input, result |-> result])
        /\ pLastIndex' = IF result.isNull THEN 0
                         ELSE Len(trim(toLowerCase(input)))
        /\ pTable' = channelMappings
        /\ UNCHANGED <<routeVars, toolVars, registryVars, extraVars>>

\* One call parseAICommand(input).  pattern1, pattern2 and channelMappings are
\* literals evaluated inside the function: every call makes new objects, the
\* patterns have no g or y flag, so String.prototype.match starts at index 0
\* and leaves lastIndex at 0, and nothing is assigned to channelMappings.
ParseCall(input) ==
    /\ Len(pCalls) < MaxCalls
    /\ pCalls' = Append(pCalls, [input  |-> input,
                                 result |-> parseAICommand(input)])
    /\ pLastIndex' = 0
    /\ pTable' = channelMappings
    /\ UNCHANGED <<routeVars, toolVars, registryVars, extraVars>>

ParserNext == \E input \in ParserInputs : ParseCall(input)

SpecParser == Init /\ [][ParserNext]_vars

\* ------------------------------------------------------------------------
\* SlackMCPServer.parseAICommand (src/mcp/slack/index.ts): the parser of the
\* slack_ai_message tool
\* ------------------------------------------------------------------------

Digits == {"0", "1", "2", "3", "4", "5", "6", "7", "8", "9"}

\* [a-zA-Z0-9\-_]  and  [a-zA-Z0-9\-_.]
NameChars ==
    {Ch(LowerAlpha, i) : i \in 1..26} \cup {Ch(UpperAlpha, i) : i \in 1..26}
        \cup Digits \cup {"-", "_"}
NameDotChars == NameChars \cup {"."}

NameRun(s, i) == RunLen(s, i, NameChars, TRUE)
NameDotRun(s, i) == RunLen(s, i, NameDotChars, TRUE)

\* Length of the alternative of (?:w1|w2) that matches at position i, or 0.
Either(s, i, w1, w2) ==
    IF LitAt(s, i, w1) THEN Len(w1)
    ELSE IF LitAt(s, i, w2) THEN Len(w2) ELSE 0

\* (?:to|in) (?:the )?#([a-zA-Z0-9\-_]+)  tried at position i.
cp1At(s, i) ==
    LET v == Either(s, i, "to", "in")
        a == i + v + 1
        hash(p) == IF LitAt(s, p, "#") /\ NameRun(s, p + 1) >= 1
                   THEN Match(SubSeq(s, p + 1, p + NameRun(s, p + 1)), "")
                   ELSE NoMatch
    IN  IF v = 0 \/ ~LitAt(s, i + v, " ") THEN NoMatch
        ELSE IF LitAt(s, a, "the ") /\ hash(a + 4).ok THEN hash(a + 4)
        ELSE hash(a)

\* (?:to|in) (?:the )?([a-zA-Z0-9\-_]+) channel  tried at position i.  The
\* name is the whole run of name characters: a shorter one is followed by a
\* name character and not by the space of " channel".
cp2At(s, i) ==
    LET v == Either(s, i, "to", "in")
        a == i + v + 1
        name(p) == LET n == NameRun(s, p)
                   IN  IF n >= 1 /\ LitAt(s, p + n, " channel")
                       THEN Match(SubSeq(s, p, p + n - 1), "")
                       ELSE NoMatch
    IN  IF v = 0 \/ ~LitAt(s, i + v, " ") THEN NoMatch
        ELSE IF LitAt(s, a, "the ") /\ name(a + 4).ok THEN name(a + 4)
        ELSE name(a)

\* @([a-zA-Z0-9\-_.]+)  tried at position i.
cp3At(s, i) ==
    IF LitAt(s, i, "@") /\ NameDotRun(s, i + 1) >= 1
    THEN Match(SubSeq(s, i + 1, i + NameDotRun(s, i + 1)), "")
    ELSE NoMatch

\* (?:to|message) ([a-zA-Z0-9\-_.]+)  tried at position i.
cp4At(s, i) ==
    LET v == Either(s, i, "to", "message")
        a == i + v + 1
    IN  IF v > 0 /\ LitAt(s, i + v, " ") /\ NameDotRun(s, a) >= 1
        THEN Match(SubSeq(s, a, a + NameDotRun(s, a) - 1), "")
        ELSE NoMatch

\* The four channelPatterns, each matched at its leftmost position.
channelPattern1(s) == FirstAsc([i \in 1..Len(s) |-> cp1At(s, i)])
channelPattern2(s) == FirstAsc([i \in 1..Len(s) |-> cp2At(s, i)])
channelPattern3(s) == FirstAsc([i \in 1..Len(s) |-> cp3At(s, i)])
channelPattern4(s) == FirstAsc([i \in 1..Len(s) |-> cp4At(s, i)])

\* "Format channel appropriately": the sigil is chosen by what the whole
\* command contains.  No pattern lets channelName start with '@' or '#'.
formatChannel(normalizedCommand, channelName) ==
    IF includes(normalizedCommand, "@") \/ includes(normalizedCommand, "message ")
    THEN "@" \o channelName
    ELSE "#" \o channelName

\* "Find channel": the first pattern of the list that matches; "" stands
\* for undefined.
findChannel(normalizedCommand) ==
    LET m1 == channelPattern1(normalizedCommand)
        m2 == channelPattern2(normalizedCommand)
        m3 == channelPattern3(normalizedCommand)
        m4 == channelPattern4(normalizedCommand)
    IN  IF m1.ok THEN formatChannel(normalizedCommand, m1.g1)
        ELSE IF m2.ok THEN formatChannel(normalizedCommand, m2.g1)
        ELSE IF m3.ok THEN formatChannel(normalizedCommand, m3.g1)
        ELSE IF m4.ok THEN formatChannel(normalizedCommand, m4.g1)
        ELSE ""

\* Length of the verb of ^(?:send|message|tell|say) at the start of s, or 0.
verbLen(s) ==
    IF LitAt(s, 1, "send") THEN 4
    ELSE IF LitAt(s, 1, "message") THEN 7
    ELSE IF LitAt(s, 1, "tell") THEN 4
    ELSE IF LitAt(s, 1, "say") THEN 3 ELSE 0

\* q([^q]+)q  at position i, for the quote character q: the body is the run
\* of characters up to the next q.  The match's end is i + n + 1.
quotedAt(s, i, q) ==
    LET n == RunLen(s, i + 1, {q}, FALSE)
    IN  IF LitAt(s, i, q) /\ n >= 1 /\ LitAt(s, i + n + 1, q)
        THEN [ok |-> TRUE, g1 |-> SubSeq(s, i + 1, i + n), g2 |-> "",
              end |-> i + n + 1]
        ELSE [ok |-> FALSE, g1 |-> "", g2 |-> "", end |-> 0]

\* ' (?:to|in)'  at position p.
toInAt(s, p) == LitAt(s, p, " to") \/ LitAt(s, p, " in")

\* ^(?:send|message|tell|say) (?:"([^"]+)"|'([^']+)'|([^"'].+?)) (?:to|in)
messagePattern1(s) ==
    LET v  == verbLen(s)
        a  == v + 2
        dq == quotedAt(s, a, "\"")
        sq == quotedAt(s, a, "'")
    IN  IF v = 0 \/ ~LitAt(s, v + 1, " ") \/ a > Len(s) THEN NoMatch
        ELSE IF dq.ok /\ toInAt(s, dq.end + 1) THEN Match(dq.g1, "")
        ELSE IF sq.ok /\ toInAt(s, sq.end + 1) THEN Match(sq.g1, "")
        ELSE IF Ch(s, a) \in {"\"", "'"} THEN NoMatch
        ELSE FirstAsc([e \in (a + 1)..(a + DotRun(s, a + 1)) |->
                IF toInAt(s, e + 1) THEN Match(SubSeq(s, a, e), "")
                ELSE NoMatch])

\* ^(?:send|message|tell|say) (.+?) (?:to|in|@)
messagePattern2(s) ==
    LET v == verbLen(s)
        a == v + 2
    IN  IF v = 0 \/ ~LitAt(s, v + 1, " ") THEN NoMatch
        ELSE FirstAsc([e \in a..(a + DotRun(s, a) - 1) |->
                IF toInAt(s, e + 1) \/ LitAt(s, e + 1, " @")
                THEN Match(SubSeq(s, a, e), "")
                ELSE NoMatch])

\* /"([^"]+)"/  and  /'([^']+)'/
messagePattern3(s) ==
    FirstAsc([i \in 1..Len(s) |->
        LET m == quotedAt(s, i, "\"")
        IN  IF m.ok THEN Match(m.g1, "") ELSE NoMatch])
messagePattern4(s) ==
    FirstAsc([i \in 1..Len(s) |->
        LET m == quotedAt(s, i, "'")
        IN  IF m.ok THEN Match(m.g1, "") ELSE NoMatch])

\* "Extract message content": the group of the first pattern that matches,
\* trimmed (a matching group is never empty); "" stands for undefined.
extractMessage(command) ==
    LET m1 == messagePattern1(command)
        m2 == messagePattern2(command)
        m3 == messagePattern3(command)
        m4 == messagePattern4(command)
    IN  IF m1.ok THEN trim(m1.g1)
        ELSE IF m2.ok THEN trim(m2.g1)
        ELSE IF m3.ok THEN trim(m3.g1)
        ELSE IF m4.ok THEN trim(m4.g1)
        ELSE ""

\* Start of the leftmost match of  \s+word\s+  (flag i) in s, or 0.
splitAt(s, word) ==
    LET low == toLowerCase(s)
        S == {i \in 1..Len(s) :
                /\ IsWs(Ch(s, i))
                /\ LitAt(low, i + WsRun(s, i), word)
                /\ WsRun(s, i + WsRun(s, i) + Len(word)) >= 1}
    IN  IF S = {} THEN 0 ELSE CHOOSE i \in S : \A j \in S : i <= j

\* parts[0].replace(/^(?:send|message|tell|say)\s+/i, '').trim()
stripVerb(s) ==
    LET v == verbLen(toLowerCase(s))
    IN  trim(IF v > 0 /\ WsRun(s, v + 1) >= 1
             THEN SubSeq(s, v + 1 + WsRun(s, v + 1), Len(s)) ELSE s)

\* "Fallback: ... try to split on common words": the first of 'to', 'in',
\* '@' that splits the command gives the message.
splitFallback(command) ==
    IF splitAt(command, "to") > 0
    THEN stripVerb(SubSeq(command, 1, splitAt(command, "to") - 1))
    ELSE IF splitAt(command, "in") > 0
    THEN stripVerb(SubSeq(command, 1, splitAt(command, "in") - 1))
    ELSE IF splitAt(command, "@") > 0
    THEN stripVerb(SubSeq(command, 1, splitAt(command, "@") - 1))
    ELSE ""

\* SlackMCPServer.parseAICommand: the channel is looked for in the
\* normalized command, the message in the command as it was given.
mcpParseAICommand(command) ==
    LET normalizedCommand == trim(toLowerCase(command))
        channel == findChannel(normalizedCommand)
        message == extractMessage(command)
    IN  [channel |-> channel,
         message |-> IF message = "" /\ channel # ""
                     THEN splitFallback(command) ELSE message]

\* ------------------------------------------------------------------------
\* SlackMCPServer.handleAIMessage
\* ------------------------------------------------------------------------

\* The commands of the tool's documentation and test script: the three
\* shapes  send <text> to the <name> channel ,  message @<user> <text> ,
\* tell <text> in #<name> , over the documented words.
DocTexts == {"hello world", "about the meeting", "the team good morning"}
DocNames == {"general", "announcements"}
DocUsers == {"john"}

DocumentedCommands ==
    {"send " \o t \o " to the " \o n \o " channel" :
        t \in DocTexts, n \in DocNames}
    \cup {"message @" \o u \o " " \o t : u \in DocUsers, t \in DocTexts}
    \cup {"tell " \o t \o " in #" \o n : t \in DocTexts, n \in DocNames}

\* The "AI Command Patterns" of the README, and the same targets under
\* other wordings.
PatternCommands ==
    {"send 'hello world' to #general", "send \"Hello!\" to #random",
     "tell the team about the meeting", "message john hello",
     "send hello to @john", "send hello in the general channel",
     "message 'hello' to #general", "send 'ping @bob' to #general",
     "message the team hello in the general channel",
     "Send hello to #general", "send   to x"}

ToolCommands == DocumentedCommands \cup PatternCommands \cup Commands

\* validateArgs(args, ['command']) throws McpError when args has no command
\* (the error leaves handleAIMessage and is rethrown by executeTool).
ToolCallWithoutCommand ==
    /\ tPc = "idle"
    /\ tPc' = "done"
    /\ tResult' = [isError |-> TRUE,
                   text |-> "McpError: Missing required arguments: command"]
    /\ UNCHANGED <<tCommand, tParsed, tSendCalls>>
    /\ UNCHANGED <<routeVars, parserVars, registryVars, extraVars>>

\* handleAIMessage up to the await of slackService.sendMessage.
ToolCall(command) ==
    /\ tPc = "idle"
    /\ tCommand' = command
    /\ tParsed' = mcpParseAICommand(command)
    /\ IF tParsed'.channel = "" \/ tParsed'.message = ""
       THEN /\ tPc' = "done"
            /\ tResult' = [isError |-> TRUE,
                           text |-> "Could not parse the command"]
       ELSE /\ tPc' = "send"
            /\ UNCHANGED tResult
    /\ UNCHANGED tSendCalls
    /\ UNCHANGED <<routeVars, parserVars, registryVars, extraVars>>

\* slackService.sendMessage({channel, text}) and the tool result.
ToolSend(outcome) ==
    LET request == [channel |-> tParsed.channel, text |-> tParsed.message]
        result  == sendMessage(request, outcome)
    IN  /\ tPc = "send"
        /\ tSendCalls' = Append(tSendCalls, request)
        /\ tResult' = IF result.success
                      THEN [isError |-> FALSE,
                            text |-> "AI message sent successfully"]
                      ELSE [isError |-> TRUE,
                            text |-> "Failed to send AI message"]
        /\ tPc' = "done"
        /\ UNCHANGED <<tCommand, tParsed>>
        /\ UNCHANGED <<routeVars, parserVars, registryVars, extraVars>>

\* The result is returned; the next call starts afresh.
ToolReturn ==
    /\ tPc = "done"
    /\ tPc' = "idle"
    /\ tCommand' = ""
    /\ tParsed' = NoParse
    /\ tSendCalls' = <<>>
    /\ tResult' = NoResult
    /\ UNCHANGED <<routeVars, parserVars, registryVars, extraVars>>

ToolNext ==
    \/ ToolCallWithoutCommand
    \/ \E command \in ToolCommands \cup {""} : ToolCall(command)
    \/ \E outcome \in NangoOutcomes : ToolSend(outcome)
    \/ ToolReturn

SpecTool == Init /\ [][ToolNext]_vars

\* ------------------------------------------------------------------------
\* executeMCPTool -> AIBrainMCPInterface.initialize -> initializeMCP ->
\* MCPToolRegistry.initialize -> MCPToolRegistry.executeTool
\* Every action is the code a caller runs between two awaits.
\* ------------------------------------------------------------------------

\* MCPConfigManager.getServerConfigurations: the enabled entries of known
\* type.  The second entry's type is unknown to the switch and is skipped.
getServerConfigurations(d) ==
    IF d.slackEnabled THEN <<[type |-> "slack", enabled |-> TRUE]>> ELSE <<>>

\* MCPToolRegistry.getDefaultConfigurations: "Slack server (if Nango key is
\* available)".
getDefaultConfigurations(d) ==
    IF d.nangoKey THEN <<[type |-> "slack", enabled |-> TRUE]>> ELSE <<>>

\* createServer returns a server: the type is known and createSlackMCPServer
\* finds NANGO_SECRET_KEY (validateEnvironment throws without it).
canCreate(config, d) == config.type = "slack" /\ d.nangoKey

\* The name of the Slack server and the names of its tools.
SlackServerId == "slack-mcp"
SlackTools ==
    {"slack_send_message", "slack_get_channels", "slack_get_users",
     "slack_get_user_info", "slack_health_check", "slack_ai_message"}

\* executeMCPTool: aiBrainMCP.initialize() tests its flag.
EnterInterface(c) ==
    /\ cpc[c] = "idle"
    /\ cpc' = [cpc EXCEPT ![c] = IF ifaceInitialized THEN "execute"
                                  ELSE "config"]
    /\ UNCHANGED <<deploy, ifaceInitialized, regInitialized, regServers,
                   regTools, created, registered, indexed, cConfigs, cResult>>
    /\ UNCHANGED <<routeVars, parserVars, toolVars, extraVars>>

\* initializeMCP: loadConfig and getServerConfigurations.
LoadConfig(c) ==
    /\ cpc[c] = "config"
    /\ cConfigs' = [cConfigs EXCEPT ![c] = getServerConfigurations(deploy)]
    /\ cpc' = [cpc EXCEPT ![c] = "registry"]
    /\ UNCHANGED <<deploy, ifaceInitialized, regInitialized, regServers,
                   regTools, created, registered, indexed, cResult>>
    /\ UNCHANGED <<routeVars, parserVars, toolVars, extraVars>>

\* MCPToolRegistry.initialize tests its flag; an empty list of
\* configurations is replaced by the default ones.
EnterRegistry(c) ==
    /\ cpc[c] = "registry"
    /\ IF regInitialized
       THEN /\ cpc' = [cpc EXCEPT ![c] = "interface"]
            /\ UNCHANGED cConfigs
       ELSE /\ cpc' = [cpc EXCEPT ![c] = "servers"]
            /\ cConfigs' = [cConfigs EXCEPT ![c] =
                               IF cConfigs[c] = <<>>
                               THEN getDefaultConfigurations(deploy)
                               ELSE cConfigs[c]]
    /\ UNCHANGED <<deploy, ifaceInitialized, regInitialized, regServers,
                   regTools, created, registered, indexed, cResult>>
    /\ UNCHANGED <<routeVars, parserVars, toolVars, extraVars>>

\* "Create and register servers": the loop over the caller's configurations
\* (createServer, registerServer; a createServer that throws is logged).
CreateServers(c) ==
    LET made == {i \in DOMAIN cConfigs[c] :
                    /\ cConfigs[c][i].enabled # FALSE
                    /\ canCreate(cConfigs[c][i], deploy)}
    IN  /\ cpc[c] = "servers"
        /\ created' = created + Cardinality(made)
        /\ registered' = registered + Cardinality(made)
        /\ regServers' = IF made = {} THEN regServers
                         ELSE regServers \cup {SlackServerId}
        /\ cpc' = [cpc EXCEPT ![c] = "index"]
        /\ UNCHANGED <<deploy, ifaceInitialized, regInitialized, regTools,
                       indexed, cConfigs, cResult>>
        /\ UNCHANGED <<routeVars, parserVars, toolVars, extraVars>>

\* buildToolIndex, then  this.initialized = true .
BuildToolIndex(c) ==
    /\ cpc[c] = "index"
    /\ regTools' = {<<sv, t>> : sv \in regServers, t \in SlackTools}
    /\ indexed' = indexed + 1
    /\ regInitialized' = TRUE
    /\ cpc' = [cpc EXCEPT ![c] = "interface"]
    /\ UNCHANGED <<deploy, ifaceInitialized, regServers, created, registered,
                   cConfigs, cResult>>
    /\ UNCHANGED <<routeVars, parserVars, toolVars, extraVars>>

\* Back in AIBrainMCPInterface.initialize: the registry is kept and the
\* interface's flag is set.
FinishInterface(c) ==
    /\ cpc[c] = "interface"
    /\ ifaceInitialized' = TRUE
    /\ cpc' = [cpc EXCEPT ![c] = "execute"]
    /\ UNCHANGED <<deploy, regInitialized, regServers, regTools, created,
                   registered, indexed, cConfigs, cResult>>
    /\ UNCHANGED <<routeVars, parserVars, toolVars, extraVars>>

\* MCPToolRegistry.executeTool('slack-mcp', 'slack_ai_message', args): throws
\* when the server or the tool is not in the registry, runs the tool
\* otherwise.
ExecuteTool(c) ==
    /\ cpc[c] = "execute"
    /\ cResult' = [cResult EXCEPT ![c] =
                      IF /\ SlackServerId \in regServers
                         /\ <<SlackServerId, "slack_ai_message">> \in regTools
                      THEN "executed" ELSE "threw"]
    /\ cpc' = [cpc EXCEPT ![c] = "done"]
    /\ UNCHANGED <<deploy, ifaceInitialized, regInitialized, regServers,
                   regTools, created, registered, indexed, cConfigs>>
    /\ UNCHANGED <<routeVars, parserVars, toolVars, extraVars>>

\* executeMCPTool returns; the caller may come back with another request.
ReturnToCaller(c) ==
    /\ cpc[c] = "done"
    /\ cpc' = [cpc EXCEPT ![c] = "idle"]
    /\ cConfigs' = [cConfigs EXCEPT ![c] = <<>>]
    /\ cResult' = [cResult EXCEPT ![c] = ""]
    /\ UNCHANGED <<deploy, ifaceInitialized, regInitialized, regServers,
                   regTools, created, registered, indexed>>
    /\ UNCHANGED <<routeVars, parserVars, toolVars, extraVars>>

RegistryNext ==
    \/ \E c \in Callers : EnterInterface(c)
    \/ \E c \in Callers : LoadConfig(c)
    \/ \E c \in Callers : EnterRegistry(c)
    \/ \E c \in Callers : CreateServers(c)
    \/ \E c \in Callers : BuildToolIndex(c)
    \/ \E c \in Callers : FinishInterface(c)
    \/ \E c \in Callers : ExecuteTool(c)
    \/ \E c \in Callers : ReturnToCaller(c)

\* A cold process under any deployment.
RegistryInit ==
    /\ RouteInit
    /\ ParserInit
    /\ ToolInit
    /\ RegistryCold
    /\ deploy \in Deployments
    /\ ExtraInit

SpecRegistry == RegistryInit /\ [][RegistryNext]_vars

\* ------------------------------------------------------------------------
\* POST /api/nango/webhook and POST /nango/webhook
\* ------------------------------------------------------------------------

WebhookRoutes == {"/api/nango/webhook", "/nango/webhook"}

\* The bodies a delivery can carry.  A body that is no JSON text makes
\* request.json() reject; the JSON text  null  parses to null, and reading
\* a property of it throws.  Of an object the handlers read type, operation
\* and success (any falsy value, or none, counts as FALSE), endUser.endUserId
\* ("unprintable": an object that cannot be converted to a string, which
\* makes the template literal throw) and responseResults.
WebhookEvents ==
    {[kind |-> "invalid-json"], [kind |-> "null"]}
        \cup [kind : {"object"},
              type : {"auth", "sync", "forward", ""},
              operation : {"creation", "deletion", "override", ""},
              success : BOOLEAN,
              endUserId : {"user-1", "", "unprintable"},
              responseResults : BOOLEAN]

\* The try block of POST /api/nango/webhook: the branch that logs the event,
\* or "threw" when a statement of the block throws.
apiWebhookTry(event) ==
    IF event.kind # "object" THEN "threw"
    ELSE IF event.type = "auth" /\ event.operation = "creation" /\ event.success
    THEN IF event.endUserId = "unprintable" THEN "threw" ELSE "created"
    ELSE IF event.type = "auth" /\ event.operation = "creation"
                                /\ ~event.success
    THEN "failed"
    ELSE IF event.type = "auth" /\ event.operation = "deletion" THEN "deleted"
    ELSE "other"

\* The try block of POST /nango/webhook.
nangoWebhookTry(event) ==
    IF event.kind # "object" THEN "threw"
    ELSE IF event.type = "auth" /\ event.operation = "creation" /\ event.success
    THEN IF event.endUserId = "unprintable" THEN "threw" ELSE "created"
    ELSE IF event.type = "auth" /\ event.operation = "deletion" THEN "deleted"
    ELSE IF event.type = "sync" THEN "sync"
    ELSE "other"

\* The response of the catch block, with a status other than the source's.
webhookCatch_serverError(route) ==
    [status |-> 500, received |-> FALSE, error |-> "Processing failed"]

\* The response of the catch block of either handler.
webhookCatch(route) ==
    [status |-> 200, received |-> FALSE, error |-> "Processing failed"]

\* The response after the try block ran through.
webhookReceived(route) ==
    [status |-> 200, received |-> TRUE, error |-> ""]

\* Nango delivers an event to one of the endpoints.
WebhookDeliver(route, event) ==
    /\ wPc = "idle"
    /\ wPc' = "handling"
    /\ wRoute' = route
    /\ wEvent' = event
    /\ UNCHANGED <<wBranch, wResponse>>
    /\ UNCHANGED <<routeVars, parserVars, toolVars, registryVars, serverVars,
                   slackRouteVars, retryVars, reloadPc>>

\* POST of /api/nango/webhook handles the delivery and answers.
ApiWebhookPOST ==
    /\ wPc = "handling"
    /\ wRoute = "/api/nango/webhook"
    /\ wBranch' = apiWebhookTry(wEvent)
    /\ wResponse' = IF wBranch' = "threw" THEN webhookCatch(wRoute)
                                         ELSE webhookReceived(wRoute)
    /\ wPc' = "answered"
    /\ UNCHANGED <<wRoute, wEvent>>
    /\ UNCHANGED <<routeVars, parserVars, toolVars, registryVars, serverVars,
                   slackRouteVars, retryVars, reloadPc>>

\* POST of /nango/webhook handles the delivery and answers.
NangoWebhookPOST ==
    /\ wPc = "handling"
    /\ wRoute = "/nango/webhook"
    /\ wBranch' = nangoWebhookTry(wEvent)
    /\ wResponse' = IF wBranch' = "threw" THEN webhookCatch(wRoute)
                                         ELSE webhookReceived(wRoute)
    /\ wPc' = "answered"
    /\ UNCHANGED <<wRoute, wEvent>>
    /\ UNCHANGED <<routeVars, parserVars, toolVars, registryVars, serverVars,
                   slackRouteVars, retryVars, reloadPc>>

WebhookNext ==
    \/ \E route \in WebhookRoutes, event \in WebhookEvents :
           WebhookDeliver(route, event)
    \/ ApiWebhookPOST
    \/ NangoWebhookPOST

SpecWebhook == Init /\ [][WebhookNext]_vars

\* ------------------------------------------------------------------------
\* SlackMCPServer.executeTool: calls in flight on one server
\* ------------------------------------------------------------------------

\* Connection IDs callers pass, and the default a server can be configured
\* with ("" is undefined).
ConnectionIds == {"conn-A", "conn-B"}
DefaultConnectionIds == {"", "conn-A"}

\* Tool names a call carries here: one of the six tools (every handler hands
\* its operation to Nango in the same way) and one name that is none of them.
CalledNames == {"slack_send_message", "slack_delete_message"}

\* A request handed to Nango (nango.proxy or nango.triggerAction): what it
\* is for and the connection ID it carries.
NangoRequest(endpoint, connectionId) ==
    [endpoint |-> endpoint, connectionId |-> connectionId]

\* new SlackMCPServer(config): one SlackService for all calls.
NewSlackMCPServer(default) ==
    /\ ~serverBuilt
    /\ serverBuilt' = TRUE
    /\ defaultConnectionId' = default
    /\ UNCHANGED <<serviceConfig, ePc, eName, eArgs, eConnectionId,
                   eRequests, eResult>>
    /\ UNCHANGED <<routeVars, parserVars, toolVars, registryVars, webhookVars,
                   slackRouteVars, retryVars, reloadPc>>

\* The call picks the connection ID of its own arguments only.
executeToolEnter_ignoresDefault(c, name, connectionId) ==
    /\ serverBuilt
    /\ ePc[c] = "idle"
    /\ eName' = [eName EXCEPT ![c] = name]
    /\ eArgs' = [eArgs EXCEPT ![c] = connectionId]
    /\ eConnectionId' = [eConnectionId EXCEPT ![c] = connectionId]
    /\ IF connectionId = ""
       THEN /\ eResult' = [eResult EXCEPT ![c] = "McpError:InvalidParams"]
            /\ ePc' = [ePc EXCEPT ![c] = "returned"]
            /\ UNCHANGED <<serviceConfig, eRequests>>
       ELSE /\ serviceConfig' = connectionId
            /\ eRequests' = [eRequests EXCEPT ![c] =
                                {NangoRequest("/auth.test", connectionId)}]
            /\ ePc' = [ePc EXCEPT ![c] = "auth.test"]
            /\ UNCHANGED eResult
    /\ UNCHANGED <<serverBuilt, defaultConnectionId>>
    /\ UNCHANGED <<routeVars, parserVars, toolVars, registryVars, webhookVars,
                   slackRouteVars, retryVars, reloadPc>>

\* executeTool up to its first suspension: connectionId is args.connectionId
\* or the default; without one the call throws InvalidParams; otherwise
\* slackService.initialize assigns this.config and testConnection hands
\* /auth.test to Nango.
ExecuteToolEnter(c, name, connectionId) ==
    /\ serverBuilt
    /\ ePc[c] = "idle"
    /\ eName' = [eName EXCEPT ![c] = name]
    /\ eArgs' = [eArgs EXCEPT ![c] = connectionId]
    /\ LET id == IF connectionId # "" THEN connectionId
                                      ELSE defaultConnectionId
       IN  /\ eConnectionId' = [eConnectionId EXCEPT ![c] = id]
           /\ IF id = ""
              THEN /\ eResult' = [eResult EXCEPT
                                     ![c] = "McpError:InvalidParams"]
                   /\ ePc' = [ePc EXCEPT ![c] = "returned"]
                   /\ UNCHANGED <<serviceConfig, eRequests>>
              ELSE /\ serviceConfig' = id
                   /\ eRequests' = [eRequests EXCEPT ![c] =
                                       {NangoRequest("/auth.test", id)}]
                   /\ ePc' = [ePc EXCEPT ![c] = "auth.test"]
                   /\ UNCHANGED eResult
    /\ UNCHANGED <<serverBuilt, defaultConnectionId>>
    /\ UNCHANGED <<routeVars, parserVars, toolVars, registryVars, webhookVars,
                   slackRouteVars, retryVars, reloadPc>>

\* initialize has returned: the switch of executeTool.  A name that is none
\* of the six tools throws MethodNotFound; a tool's handler hands its
\* operation to Nango with the connection ID that this.config holds now.
Dispatch(c) ==
    IF eName[c] \notin SlackTools
    THEN /\ eResult' = [eResult EXCEPT ![c] = "McpError:MethodNotFound"]
         /\ ePc' = [ePc EXCEPT ![c] = "returned"]
         /\ UNCHANGED eRequests
    ELSE /\ eRequests' = [eRequests EXCEPT ![c] =
                @ \cup {NangoRequest(eName[c], serviceConfig)}]
         /\ ePc' = [ePc EXCEPT ![c] = "operation"]
         /\ UNCHANGED eResult

\* /auth.test comes back.  With response.ok, testConnection hands
\* /conversations.list to Nango; otherwise initialize returns (testConnection
\* catches every error) and executeTool goes on.
AuthTestReturns(c, ok) ==
    /\ ePc[c] = "auth.test"
    /\ IF ok
       THEN /\ eRequests' = [eRequests EXCEPT ![c] =
                   @ \cup {NangoRequest("/conversations.list", serviceConfig)}]
            /\ ePc' = [ePc EXCEPT ![c] = "conversations.list"]
            /\ UNCHANGED eResult
       ELSE Dispatch(c)
    /\ UNCHANGED <<serverBuilt, defaultConnectionId, serviceConfig, eName,
                   eArgs, eConnectionId>>
    /\ UNCHANGED <<routeVars, parserVars, toolVars, registryVars, webhookVars,
                   slackRouteVars, retryVars, reloadPc>>

\* /conversations.list comes back, with or without an error: initialize
\* returns and executeTool goes on.
ConversationsListReturns(c) ==
    /\ ePc[c] = "conversations.list"
    /\ Dispatch(c)
    /\ UNCHANGED <<serverBuilt, defaultConnectionId, serviceConfig, eName,
                   eArgs, eConnectionId>>
    /\ UNCHANGED <<routeVars, parserVars, toolVars, registryVars, webhookVars,
                   slackRouteVars, retryVars, reloadPc>>

\* The tool's operation comes back and the handler returns its result.
OperationReturns(c, ok) ==
    /\ ePc[c] = "operation"
    /\ eResult' = [eResult EXCEPT ![c] = IF ok THEN "result" ELSE "isError"]
    /\ ePc' = [ePc EXCEPT ![c] = "returned"]
    /\ UNCHANGED <<serverBuilt, defaultConnectionId, serviceConfig, eName,
                   eArgs, eConnectionId, eRequests>>
    /\ UNCHANGED <<routeVars, parserVars, toolVars, registryVars, webhookVars,
                   slackRouteVars, retryVars, reloadPc>>

ServerNext ==
    \/ \E default \in DefaultConnectionIds : NewSlackMCPServer(default)
    \/ \E c \in Callers, name \in CalledNames,
          connectionId \in ConnectionIds \cup {""} :
           ExecuteToolEnter(c, name, connectionId)
    \/ \E c \in Callers, ok \in BOOLEAN : AuthTestReturns(c, ok)
    \/ \E c \in Callers : ConversationsListReturns(c)
    \/ \E c \in Callers, ok \in BOOLEAN : OperationReturns(c, ok)

SpecServer == Init /\ [][ServerNext]_vars

\* ------------------------------------------------------------------------
\* POST /api/integrations/slack/send-message, /channels and /health
\* ------------------------------------------------------------------------

SlackRoutes == {"send-message", "channels", "health"}

\* Request bodies that are JSON objects: nangoConnectionId, and the channel
\* and text of messageData ("" is absent or empty; the channels and health
\* routes do not read them).
RouteBodies ==
    [nangoConnectionId : {"", "conn-1"}, channel : {"", "#general"},
     text : {"", "Hello"}]

\* The MCP tool a route tries first, and the SlackService method of its
\* fallback.
mcpTool(route) ==
    IF route = "send-message" THEN "slack_send_message"
    ELSE IF route = "channels" THEN "slack_get_channels"
    ELSE "slack_health_check"

serviceMethod(route) ==
    IF route = "send-message" THEN "sendMessage"
    ELSE IF route = "channels" THEN "getChannels"
    ELSE "testConnection"

\* What executeMCPTool can come to: slack_send_message without channel or
\* text never gives a non-error result (validateArgs throws, or the
\* SlackService of the server rejects the request).
mcpOutcomesOf(route, b) ==
    IF route = "send-message"
            /\ ~validSendMessage([channel |-> b.channel, text |-> b.text])
    THEN MCPOutcomes \ {"ok"}
    ELSE MCPOutcomes

\* The 500 response of a route's outer catch.
internalError(route) ==
    Response(500, FALSE, "API_ERROR",
             IF route = "health" THEN "Health check failed"
                                 ELSE "Internal server error")

\* request.json() rejects, or the body is null: the outer catch answers 500.
RouteReceiveInvalid(route) ==
    /\ pc = "idle"
    /\ rPc = "idle"
    /\ rRoute' = route
    /\ rPc' = "done"
    /\ rResponse' = internalError(route)
    /\ UNCHANGED <<rBody, rSecretKey, rMcp, rServiceCalls, rTrigger, rOutcome>>
    /\ UNCHANGED <<routeVars, parserVars, toolVars, registryVars, webhookVars,
                   serverVars, retryVars, reloadPc>>

\* The handler goes on to the MCP attempt whatever nangoConnectionId is.
RouteReceive_noCheck(route, b, secretKey) ==
    /\ pc = "idle"
    /\ rPc = "idle"
    /\ rRoute' = route
    /\ rBody' = b
    /\ rSecretKey' = secretKey
    /\ rPc' = "mcp"
    /\ UNCHANGED <<rMcp, rServiceCalls, rTrigger, rOutcome, rResponse>>
    /\ UNCHANGED <<routeVars, parserVars, toolVars, registryVars, webhookVars,
                   serverVars, retryVars, reloadPc>>

\* The body is read and nangoConnectionId is tested; the health route then
\* calls getSlackService(), which throws without NANGO_SECRET_KEY.
RouteReceive(route, b, secretKey) ==
    /\ pc = "idle"
    /\ rPc = "idle"
    /\ rRoute' = route
    /\ rBody' = b
    /\ rSecretKey' = secretKey
    /\ IF b.nangoConnectionId = ""
       THEN /\ rPc' = "done"
            /\ rResponse' = Response(400, FALSE, "MISSING_REQUIRED_FIELD",
                                     "nangoConnectionId is required")
       ELSE IF route = "health" /\ ~secretKey
       THEN /\ rPc' = "done"
            /\ rResponse' = internalError(route)
       ELSE /\ rPc' = "mcp"
            /\ UNCHANGED rResponse
    /\ UNCHANGED <<rMcp, rServiceCalls, rTrigger, rOutcome>>
    /\ UNCHANGED <<routeVars, parserVars, toolVars, registryVars, webhookVars,
                   serverVars, retryVars, reloadPc>>

\* "Try MCP first": a non-error result is answered at once, everything else
\* falls through to the SlackService fallback.
RouteTryMCP(outcome) ==
    /\ rPc = "mcp"
    /\ outcome \in mcpOutcomesOf(rRoute, rBody)
    /\ rMcp' = outcome
    /\ IF outcome = "ok"
       THEN /\ rPc' = "done"
            /\ rResponse' = Response(200, TRUE, "", "")
       ELSE /\ rPc' = "fallback"
            /\ UNCHANGED rResponse
    /\ UNCHANGED <<rRoute, rBody, rSecretKey, rServiceCalls, rTrigger,
                   rOutcome>>
    /\ UNCHANGED <<routeVars, parserVars, toolVars, registryVars, webhookVars,
                   serverVars, retryVars, reloadPc>>

\* The fallback up to the await of slackService.initialize; getSlackService()
\* throws without NANGO_SECRET_KEY.
RouteFallback ==
    /\ rPc = "fallback"
    /\ IF ~rSecretKey
       THEN /\ rPc' = "done"
            /\ rResponse' = internalError(rRoute)
            /\ UNCHANGED rServiceCalls
       ELSE /\ rPc' = "operation"
            /\ rServiceCalls' = Append(rServiceCalls, "initialize")
            /\ UNCHANGED rResponse
    /\ UNCHANGED <<rRoute, rBody, rSecretKey, rMcp, rTrigger, rOutcome>>
    /\ UNCHANGED <<routeVars, parserVars, toolVars, registryVars, webhookVars,
                   serverVars, retryVars, reloadPc>>

\* The response of a route to what its SlackService method returned.
operationResponse(route, request, outcome) ==
    IF route = "send-message"
    THEN LET result == sendMessage(request, outcome)
         IN  IF result.success THEN Response(200, TRUE, "", "")
             ELSE Response(IF result.code = "AUTHENTICATION_FAILED"
                           THEN 401 ELSE 400,
                           FALSE, result.code, result.error)
    ELSE IF route = "channels"
    THEN IF outcome = "ok" THEN Response(200, TRUE, "", "")
         ELSE Response(400, FALSE, "API_ERROR", outcome)
    ELSE Response(200, TRUE, "", "")

\* slackService.sendMessage(messageData), getChannels(queryParams) or
\* testConnection(), and the response to its result.
RouteOperation(outcome) ==
    LET request == [channel |-> rBody.channel, text |-> rBody.text]
    IN  /\ rPc = "operation"
        /\ rServiceCalls' = Append(rServiceCalls, serviceMethod(rRoute))
        /\ rTrigger' = IF rRoute = "send-message" /\ validSendMessage(request)
                       THEN Append(rTrigger, request)
                       ELSE rTrigger
        /\ rOutcome' = outcome
        /\ rResponse' = operationResponse(rRoute, request, outcome)
        /\ rPc' = "done"
        /\ UNCHANGED <<rRoute, rBody, rSecretKey, rMcp>>
        /\ UNCHANGED <<routeVars, parserVars, toolVars, registryVars,
                       webhookVars, serverVars, retryVars, reloadPc>>

\* The response is returned; the next request starts from a fresh handler.
RouteRespond ==
    /\ rPc = "done"
    /\ rPc' = "idle"
    /\ rRoute' = ""
    /\ rBody' = NoRouteBody
    /\ rSecretKey' = TRUE
    /\ rMcp' = ""
    /\ rServiceCalls' = <<>>
    /\ rTrigger' = <<>>
    /\ rOutcome' = ""
    /\ rResponse' = NoResponse
    /\ UNCHANGED <<routeVars, parserVars, toolVars, registryVars, webhookVars,
                   serverVars, retryVars, reloadPc>>

\* One request at a time to one of the four Slack routes.
AIMessageRequest ==
    /\ rPc = "idle"
    /\ Next

RoutesNext ==
    \/ AIMessageRequest
    \/ \E route \in SlackRoutes : RouteReceiveInvalid(route)
    \/ \E route \in SlackRoutes, b \in RouteBodies, secretKey \in BOOLEAN :
           RouteReceive(route, b, secretKey)
    \/ \E outcome \in MCPOutcomes : RouteTryMCP(outcome)
    \/ RouteFallback
    \/ \E outcome \in NangoOutcomes : RouteOperation(outcome)
    \/ RouteRespond

SpecRoutes == Init /\ [][RoutesNext]_vars

\* ------------------------------------------------------------------------
\* RetryManager.withRetry and IntegrationUtils.retry
\* ------------------------------------------------------------------------

\* Largest maxAttempts a caller passes here.
MaxAttempts == 4

RetryHelpers == {"withRetry", "retry"}

\* Codes of the errors fn can throw; "" is an error without error.code.
ErrorCodes ==
    {"RATE_LIMITED", "SERVICE_UNAVAILABLE", "API_ERROR",
     "AUTHENTICATION_FAILED", ""}

\* The shouldRetry a caller of withRetry can supply: one that retries every
\* error, one that retries none, one that asks SlackErrorHandler.shouldRetry
\* as a method; "default" is none supplied.  IntegrationUtils.retry reads no
\* such option.
ShouldRetryOptions(f) ==
    IF f = "withRetry" THEN {"default", "always", "never", "byCode"}
    ELSE {"default"}

\* The options of a call, defaults filled in.
RetryOptionsOf(f) ==
    [maxAttempts : 1..MaxAttempts, baseDelay : {1000, 6000},
     maxDelay : {10000}, backoffFactor : {2},
     shouldRetry : ShouldRetryOptions(f)]

\* SlackErrorHandler.getErrorCode.
getErrorCode(code) == IF code # "" THEN code ELSE "UNKNOWN_ERROR"

\* SlackErrorHandler.shouldRetry called as a method of its class.
shouldRetry(code) ==
    getErrorCode(code) \in {"RATE_LIMITED", "SERVICE_UNAVAILABLE", "API_ERROR"}

\* Math.pow on the integers used here.
RECURSIVE Pow(_, _)
Pow(b, e) == IF e = 0 THEN 1 ELSE b * Pow(b, e - 1)

\* The delay before the retry that follows the given attempt.
backoffDelay(options, n) ==
    LET d == options.baseDelay * Pow(options.backoffFactor, n - 1)
    IN  IF d < options.maxDelay THEN d ELSE options.maxDelay

\* The helper is called: the loop starts with attempt = 1.
RetryCall(f, options) ==
    /\ retryPc = "idle"
    /\ retryFn' = f
    /\ retryOptions' = options
    /\ attempt' = 1
    /\ retryPc' = "attempt"
    /\ UNCHANGED <<invocations, lastError, waits, retryResult>>
    /\ UNCHANGED <<routeVars, parserVars, toolVars, registryVars, webhookVars,
                   serverVars, slackRouteVars, reloadPc>>

\* fn() resolves: the helper returns its value.
FnSucceeds ==
    /\ retryPc = "attempt"
    /\ invocations' = invocations + 1
    /\ retryResult' = [kind |-> "returned", error |-> ""]
    /\ retryPc' = "done"
    /\ UNCHANGED <<retryFn, retryOptions, attempt, lastError, waits>>
    /\ UNCHANGED <<routeVars, parserVars, toolVars, registryVars, webhookVars,
                   serverVars, slackRouteVars, reloadPc>>

\* What the catch block decides after a failed attempt that is not the
\* last: "break", "wait", or "TypeError" when the test itself throws.  The
\* default shouldRetry was read off SlackErrorHandler and is called as a
\* plain function, so its  this.getErrorCode  throws.
afterFailure(f, options, code) ==
    IF f = "retry" THEN "wait"
    ELSE IF options.shouldRetry = "default" THEN "TypeError"
    ELSE IF options.shouldRetry = "always" THEN "wait"
    ELSE IF options.shouldRetry = "never" THEN "break"
    ELSE IF shouldRetry(code) THEN "wait" ELSE "break"

\* fn() rejects: the catch block.
FnFails(code) ==
    /\ retryPc = "attempt"
    /\ invocations' = invocations + 1
    /\ lastError' = code
    /\ LET decision == IF attempt = retryOptions.maxAttempts THEN "break"
                       ELSE afterFailure(retryFn, retryOptions, code)
       IN  IF decision = "wait"
           THEN /\ waits' = Append(waits, backoffDelay(retryOptions, attempt))
                /\ retryPc' = "waiting"
                /\ UNCHANGED retryResult
           ELSE /\ retryResult' =
                     [kind |-> "threw",
                      error |-> IF decision = "break" THEN getErrorCode(code)
                                ELSE "TypeError"]
                /\ retryPc' = "done"
                /\ UNCHANGED waits
    /\ UNCHANGED <<retryFn, retryOptions, attempt>>
    /\ UNCHANGED <<routeVars, parserVars, toolVars, registryVars, webhookVars,
                   serverVars, slackRouteVars, reloadPc>>

\* The delay has passed: the next iteration of the loop.
WaitElapses ==
    /\ retryPc = "waiting"
    /\ attempt' = attempt + 1
    /\ retryPc' = "attempt"
    /\ UNCHANGED <<retryFn, retryOptions, invocations, lastError, waits,
                   retryResult>>
    /\ UNCHANGED <<routeVars, parserVars, toolVars, registryVars, webhookVars,
                   serverVars, slackRouteVars, reloadPc>>

RetryNext ==
    \/ \E f \in RetryHelpers : \E options \in RetryOptionsOf(f) :
           RetryCall(f, options)
    \/ FnSucceeds
    \/ \E code \in ErrorCodes : FnFails(code)
    \/ WaitElapses

SpecRetry == Init /\ [][RetryNext]_vars

\* ------------------------------------------------------------------------
\* MCPToolRegistry.reload and a changing environment
\* ------------------------------------------------------------------------

\* NANGO_SECRET_KEY is set, or removed, while the process runs.
SetEnvironment ==
    /\ deploy' = [deploy EXCEPT !.nangoKey = ~@]
    /\ UNCHANGED <<ifaceInitialized, regInitialized, regServers, regTools,
                   created, registered, indexed, cpc, cConfigs, cResult>>
    /\ UNCHANGED <<routeVars, parserVars, toolVars, extraVars>>

\* reload(): the flag is reset, both maps are cleared, and initialize is
\* entered without configurations, up to its first await.  One reload is
\* followed here.
Reload ==
    /\ reloadPc = "idle"
    /\ regInitialized' = FALSE
    /\ regServers' = {}
    /\ regTools' = {}
    /\ reloadPc' = "servers"
    /\ UNCHANGED <<deploy, ifaceInitialized, created, registered, indexed,
                   cpc, cConfigs, cResult>>
    /\ UNCHANGED <<routeVars, parserVars, toolVars, webhookVars, serverVars,
                   slackRouteVars, retryVars>>

\* The initialize that reload awaits: the default configurations, the loop
\* that creates and registers, buildToolIndex, and the flag.
ReloadInitialize ==
    LET configs == getDefaultConfigurations(deploy)
        made == {i \in DOMAIN configs : canCreate(configs[i], deploy)}
    IN  /\ reloadPc = "servers"
        /\ created' = created + Cardinality(made)
        /\ registered' = registered + Cardinality(made)
        /\ regServers' = IF made = {} THEN regServers
                         ELSE regServers \cup {SlackServerId}
        /\ regTools' = {<<sv, t>> : sv \in regServers', t \in SlackTools}
        /\ indexed' = indexed + 1
        /\ regInitialized' = TRUE
        /\ reloadPc' = "returned"
        /\ UNCHANGED <<deploy, ifaceInitialized, cpc, cConfigs, cResult>>
        /\ UNCHANGED <<routeVars, parserVars, toolVars, webhookVars,
                       serverVars, slackRouteVars, retryVars>>

ReloadNext ==
    \/ RegistryNext
    \/ SetEnvironment
    \/ Reload
    \/ ReloadInitialize

SpecReload == RegistryInit /\ [][ReloadNext]_vars

\* ------------------------------------------------------------------------
\* Instructions as written: the shapes the properties speak about
\* ------------------------------------------------------------------------

\* Position of the first character of s at or after i that is in cs, and
\* Len(s) + 1 when there is none.
RECURSIVE FirstOf(_, _, _)
FirstOf(s, i, cs) ==
    IF i > Len(s) \/ Ch(s, i) \in cs THEN i ELSE FirstOf(s, i + 1, cs)

\* The instruction c read as  [hey] send|message <q1>M<q2> to <target> :
\* the opening quote q1, the text M up to the next quote q2, the target.
AsSend(c) ==
    LET p == FirstOf(c, 1, QuoteChars)
        e == FirstOf(c, p + 1, QuoteChars)
    IN  IF /\ toLowerCase(SubSeq(c, 1, p - 1))
                \in {"send ", "message ", "hey send ", "hey message "}
           /\ e <= Len(c)
           /\ LitAt(c, e + 1, " to ")
           /\ e + 4 < Len(c)
        THEN [is |-> TRUE, q1 |-> Ch(c, p), m |-> SubSeq(c, p + 1, e - 1),
              q2 |-> Ch(c, e), t |-> SubSeq(c, e + 5, Len(c))]
        ELSE [is |-> FALSE, q1 |-> "", m |-> "", q2 |-> "", t |-> ""]

\* s without one pair of surrounding quotes.
Unquoted(s) ==
    IF Len(s) >= 2 /\ IsQuote(Ch(s, 1)) /\ IsQuote(Ch(s, Len(s)))
    THEN SubSeq(s, 2, Len(s) - 1) ELSE s

\* The instruction c read as  tell|notify <target> that <message>  or
\* tell|notify <target> '<message>' : the target is the text between the verb
\* and the word "that" or the opening quote, the message is the rest without
\* its quotes.
AsTell(c) ==
    LET v    == IF toLowerCase(SubSeq(c, 1, 5)) = "tell " THEN 5
                ELSE IF toLowerCase(SubSeq(c, 1, 7)) = "notify " THEN 7 ELSE 0
        rest == SubSeq(c, v + 1, Len(c))
        that == indexOf(rest, " that ")
        q    == FirstOf(rest, 1, QuoteChars)
        no   == [is |-> FALSE, t |-> "", m |-> ""]
    IN  IF Len(c) < 7 \/ v = 0 THEN no
        ELSE IF that > 1
        THEN [is |-> TRUE, t |-> SubSeq(rest, 1, that - 1),
              m |-> Unquoted(SubSeq(rest, that + 6, Len(rest)))]
        ELSE IF q > 2 /\ q <= Len(rest) /\ Ch(rest, q - 1) = " "
        THEN [is |-> TRUE, t |-> SubSeq(rest, 1, q - 2),
              m |-> Unquoted(SubSeq(rest, q, Len(rest)))]
        ELSE no

\* parseAICommand has run on the request's instruction and returned a result
\* that is handed to the send step.
ParsedForSend == pc = "send"

\* The request went down the fallback path and has been answered.
FallbackAnswered == pc = "done" /\ mcpResult \in MCPOutcomes \ {"ok"}

\* parseAICommand has run on the request's instruction.
ParseHasRun == pc \in {"send", "done"} /\ mcpResult \in MCPOutcomes \ {"ok"}

\* The instruction as parseAICommand matches it (line 388).
Normalized == trim(toLowerCase(body.command))

\* ------------------------------------------------------------------------
\* Properties
\* ------------------------------------------------------------------------

\* C1: for every instruction  send|message '<M>' to <target>  with M not
\* empty and free of quotes, parseAICommand returns a message equal to M
\* exactly as written, letter case included.
C1_MessageAsWritten ==
    LET a == AsSend(body.command)
    IN  (ParsedForSend /\ a.is /\ a.q1 = a.q2 /\ a.m # "" /\ trim(a.m) = a.m)
            => (~parsed.isNull /\ parsed.message = a.m)

\* C2: pattern A accepts a quoted message only when the closing quote is the
\* character that opened it: an instruction  send q1<text>q2 to <target>
\* with q1 # q2 is not accepted by pattern A.
C2_MixedQuotesRejected ==
    LET a == AsSend(body.command)
    IN  (ParseHasRun /\ a.is /\ a.m # "" /\ a.q1 # a.q2)
            => ~pattern1(Normalized).ok

\* C3: when the message extracted from an instruction is empty after
\* trimming, the pipeline answers with the parse failure ('could not
\* understand', with the example list) and sendMessage is never invoked.
C3_BlankMessageIsParseFailure ==
    LET a == AsSend(body.command)
    IN  (FallbackAnswered /\ a.is /\ trim(a.m) = "")
            => /\ response.code = "INVALID_REQUEST"
               /\ response.examples = examples
               /\ sendCalls = <<>>

\* The answer to an instruction that could not be parsed: status 400,
\* INVALID_REQUEST, exactly the three canonical examples, nothing sent.
IsParseFailure ==
    /\ parsed.isNull
    /\ response.status = 400
    /\ response.code = "INVALID_REQUEST"
    /\ response.examples =
         <<"send 'Hello team!' to #general",
           "message 'Meeting in 5 minutes' to @john",
           "send 'Good morning' to the development channel">>
    /\ sendCalls = <<>>
    /\ triggerCalls = <<>>

\* C4: when an instruction matches neither pattern A nor pattern B,
\* parseAICommand returns null without throwing, and the handler answers
\* with the failure that carries the three canonical examples and sends
\* nothing on the fallback path.
C4_NoMatchIsParseFailure ==
    FallbackAnswered
        => \/ IsParseFailure
           \/ pattern1(Normalized).ok
           \/ pattern2(Normalized).ok

\* Witness of C4: an instruction without a recognizable shape was answered
\* on the fallback path.
C4_Witness ==
    /\ FallbackAnswered
    /\ body.command = "xyzzy plugh"
    /\ IsParseFailure

\* C5: pattern A is tried before pattern B: for an instruction both patterns
\* match, the returned message and channel are the ones pattern A extracts.
C5_PatternAFirst ==
    (ParsedForSend /\ pattern2(Normalized).ok /\ pattern1(Normalized).ok)
        => parsed = match1Result(pattern1(Normalized))

\* Witness of C5: an instruction both patterns match, on which they disagree,
\* has been parsed.
C5_Witness ==
    /\ ParsedForSend
    /\ body.command = "tell bob to send 'x' to #general"
    /\ pattern1(Normalized).ok
    /\ pattern2(Normalized).ok
    /\ match2Result(pattern2(Normalized)) # parsed

\* The reference of a target phrase that is only given its sigil.
WithSigil(phrase) == IF hasPrefix(phrase) THEN phrase ELSE "#" \o phrase

\* C6: for every instruction  tell|notify <target> [that] <message> , the
\* target phrase is the whole text between the verb and "that" or the
\* opening quote, also when it has several words, and the message is the
\* rest without its quotes (both compared in lower case).
C6_TellTargetAndMessage ==
    LET b == AsTell(body.command)
    IN  (ParsedForSend /\ b.is /\ ~pattern1(Normalized).ok)
            => /\ parsed.channel = WithSigil(trim(toLowerCase(b.t)))
               /\ parsed.message = trim(toLowerCase(b.m))

\* C7: the resolver is applied to the target of every successful parse: a
\* tell|notify instruction yields the reference that  send 'x' to <target>
\* yields for the same target.
C7_ResolverOnBothPatterns ==
    LET b == AsTell(body.command)
    IN  (ParsedForSend /\ b.is /\ ~pattern1(Normalized).ok)
            => parsed.channel
                 = parseAICommand("send 'x' to " \o trim(b.t)).channel

\* The words of seg in front of its first "channel", without a leading
\* "in" and/or "the".
RECURSIVE DropLeading(_)
DropLeading(s) ==
    IF LitAt(s, 1, "in ") THEN DropLeading(trim(SubSeq(s, 4, Len(s))))
    ELSE IF s = "in" THEN ""
    ELSE IF LitAt(s, 1, "the ") THEN trim(SubSeq(s, 5, Len(s)))
    ELSE IF s = "the" THEN ""
    ELSE s

WordsBeforeChannel(seg) ==
    DropLeading(trim(SubSeq(seg, 1, indexOf(seg, "channel") - 1)))

\* C8: a pattern-A target with '/' is split on '/': when the second segment
\* contains "channel", the target phrase is the words in front of "channel"
\* (without a leading in/the), wherever "channel" occurs in the segment;
\* otherwise the reference is '@' followed by the first segment.
C8_SlashTargets ==
    LET a     == AsSend(body.command)
        parts == split(trim(toLowerCase(a.t)), "/")
    IN  (ParsedForSend /\ a.is /\ includes(a.t, "/"))
            => IF includes(parts[2], "channel")
               THEN parsed.channel = smartChannel(WordsBeforeChannel(parts[2]))
               ELSE parsed.channel = "@" \o parts[1]

\* ^[A-Z][A-Z0-9]{8,}$
IsOpaqueId(t) ==
    /\ Len(t) >= 9
    /\ Ch(t, 1) \in DOMAIN LowerOf
    /\ \A i \in 2..Len(t) :
          \/ Ch(t, i) \in DOMAIN LowerOf
          \/ Ch(t, i) \in {"0", "1", "2", "3", "4", "5", "6", "7", "8", "9"}

\* The target of the instruction as written, in either shape.
WrittenTarget ==
    LET a == AsSend(body.command)
        b == AsTell(body.command)
    IN  IF a.is THEN trim(a.t) ELSE IF b.is THEN trim(b.t) ELSE ""

\* C9: a target written as an opaque platform ID is the resolved reference,
\* unchanged: upper case kept, no '#' or '@' put in front.
C9_OpaqueIdUnchanged ==
    (ParsedForSend /\ IsOpaqueId(WrittenTarget))
        => parsed.channel = WrittenTarget

\* C10: a target that starts with '#' or '@' is the resolved reference,
\* unchanged: the case of the text after the sigil kept, no synonym, no
\* second prefix.
C10_SigilTargetUnchanged ==
    (/\ ParsedForSend
     /\ (startsWith(WrittenTarget, "#") \/ startsWith(WrittenTarget, "@")))
        => parsed.channel = WrittenTarget

\* The target is written on one line, without a sigil, is no opaque ID and
\* has no '/'.
Unprefixed(t) ==
    /\ t # ""
    /\ ~includes(t, "\n")
    /\ ~startsWith(t, "#")
    /\ ~startsWith(t, "@")
    /\ ~IsOpaqueId(t)
    /\ ~includes(t, "/")

\* The cleaned form of a target phrase, before white space becomes hyphens:
\* lower case, no leading article, no trailing " channel" / " room".
CleanedPhrase(t) ==
    removeTrailing(removeTrailing(removeArticle(toLowerCase(t)), "channel"),
                   "room")

\* The keys of the synonym table and the canonical slug of each.
ListedKeys ==
    {"development", "developer", "developers", "programming", "coding",
     "announce", "help", "technology", "general", "random", "team",
     "announcements", "marketing", "sales", "support", "design", "product",
     "engineering", "tech"}

CanonicalSlug(key) ==
    IF key \in {"development", "developer", "developers", "programming",
                "coding"} THEN "dev"
    ELSE IF key = "announce" THEN "announcements"
    ELSE IF key = "help" THEN "support"
    ELSE IF key = "technology" THEN "tech"
    ELSE key

\* C11: for every un-prefixed target phrase whose cleaned form is a key of
\* the synonym table, the resolved reference is '#' followed by the canonical
\* slug of that key.
C11_SynonymsResolved ==
    LET a   == AsSend(body.command)
        key == CleanedPhrase(trim(a.t))
    IN  (ParsedForSend /\ a.is /\ Unprefixed(trim(a.t)) /\ key \in ListedKeys)
            => parsed.channel = "#" \o CanonicalSlug(key)

\* Witness of C11: the target "the development channel" has been resolved to
\* "#dev".
C11_Witness ==
    /\ ParsedForSend
    /\ body.command = "send 'Good morning' to the development channel"
    /\ CleanedPhrase(trim(AsSend(body.command).t)) = "development"
    /\ parsed.channel = "#dev"

\* C12: the synonym lookup is an exact match on the table's own keys: for
\* every cleaned phrase that is none of the listed keys, the reference is '#'
\* followed by the cleaned phrase as it is.
C12_UnlistedPhraseKept ==
    LET a   == AsSend(body.command)
        key == cleanChannel(trim(a.t))
    IN  (ParsedForSend /\ a.is /\ Unprefixed(trim(a.t)) /\ key \notin ListedKeys)
            => parsed.channel = "#" \o key

\* C13: cleaning turns every run of internal white space into one hyphen: the
\* reference of an un-prefixed target phrase has no white-space character.
C13_NoWhiteSpaceInReference ==
    LET a == AsSend(body.command)
    IN  (ParsedForSend /\ a.is /\ Unprefixed(trim(a.t)))
            => \A i \in 1..Len(parsed.channel) : ~IsWs(Ch(parsed.channel, i))

\* C14: the reference of every successful parse is '#' and a non-empty name,
\* '@' and a non-empty name, or an opaque ID: never a sigil alone, never two
\* sigils.
C14_ReferenceWellFormed ==
    ParsedForSend
        => \/ IsOpaqueId(parsed.channel)
           \/ /\ Len(parsed.channel) >= 2
              /\ Ch(parsed.channel, 1) \in {"#", "@"}
              /\ Ch(parsed.channel, 2) \notin {"#", "@"}

ToolParseHasRun ==
    /\ tPc \in {"send", "done"}
    /\ tResult.text # "McpError: Missing required arguments: command"

\* handleAIMessage rejects the parse: channel or message is missing.
ToolRejects == tParsed.channel = "" \/ tParsed.message = ""

\* C16: the two parsing layers agree: on every instruction the tool parser
\* and the route parser both reject it, or both accept it with the same
\* reference and the same message.
C16_ParsersAgree ==
    LET r == parseAICommand(tCommand)
    IN  ToolParseHasRun
            => IF r.isNull THEN ToolRejects
               ELSE /\ ~ToolRejects
                    /\ tParsed.channel = r.channel
                    /\ tParsed.message = r.message

\* C17: in the tool parser a target written "to #name" / "in #name" or
\* "to|in [the] <name> channel" yields the reference '#name', whatever else
\* the command says.
C17_HashTargetsStayChannels ==
    LET n  == trim(toLowerCase(tCommand))
        m1 == channelPattern1(n)
        m2 == channelPattern2(n)
    IN  (ToolParseHasRun /\ (m1.ok \/ m2.ok))
            => tParsed.channel = "#" \o (IF m1.ok THEN m1.g1 ELSE m2.g1)

\* C18: every command of the documented shapes is parsed into a channel and
\* a non-empty message, and the tool does not answer 'Could not parse the
\* command'.
C18_DocumentedShapesParse ==
    (ToolParseHasRun /\ tCommand \in DocumentedCommands)
        => /\ ~ToolRejects
           /\ tResult.text # "Could not parse the command"

\* C19: registry initialization is lazy-init-once under concurrency: under
\* every interleaving of concurrent callers, server creation, registration
\* and tool-index building each run at most once.
C19_InitializedOnce ==
    /\ created <= 1
    /\ registered <= 1
    /\ indexed <= 1

\* C20: a server whose configuration entry has enabled = false is never
\* created or registered, whatever the other entries and NANGO_SECRET_KEY
\* are, and none of its tools is executed.
C20_DisabledServerStaysOut ==
    ~deploy.slackEnabled
        => /\ created = 0
           /\ SlackServerId \notin regServers
           /\ \A c \in Callers : cResult[c] # "executed"

\* C21: both Nango webhook handlers answer every delivery with status 200:
\* successful and failed connection creations, deletions, sync events,
\* events of unknown type, and deliveries whose processing throws, such as
\* a body that is not valid JSON.
C21_WebhooksAlwaysAnswer200 ==
    wPc = "answered" => wResponse.status = 200

\* A delivery whose body is not valid JSON has been answered from the catch
\* block.
C21_Witness ==
    /\ wPc = "answered"
    /\ wEvent.kind = "invalid-json"
    /\ wBranch = "threw"
    /\ wResponse.error = "Processing failed"

\* C22: each MCP tool call acts on the connection it was given: in every
\* interleaving of executeTool calls, the Slack operation of a call is
\* handed to Nango with that call's own connection ID, never with the
\* connection ID of another call in flight.
C22_OwnConnection ==
    \A c \in Callers :
        \A r \in eRequests[c] :
            (eArgs[c] # "" /\ r.endpoint \in SlackTools)
                => r.connectionId = eArgs[c]

\* C23: for one POST to the ai-message or send-message route the MCP path
\* is tried first and the SlackService path runs only after the MCP module
\* was unavailable, the tool call threw, or it returned an error result; a
\* non-error MCP result is answered with success without the fallback, so
\* at most one successful delivery happens per request.
C23_FallbackOnlyAfterMCPFailure ==
    /\ (pc \in {"fallback", "send"} \/ sendCalls # <<>>)
           => mcpResult \in MCPOutcomes \ {"ok"}
    /\ mcpResult = "ok"
           => /\ sendCalls = <<>> /\ triggerCalls = <<>>
              /\ pc = "done" /\ response.success /\ response.status = 200
    /\ Len(triggerCalls) + (IF mcpResult = "ok" THEN 1 ELSE 0) <= 1
    /\ (rPc \in {"fallback", "operation"} \/ rServiceCalls # <<>>)
           => rMcp \in MCPOutcomes \ {"ok"}
    /\ rMcp = "ok"
           => /\ rServiceCalls = <<>> /\ rTrigger = <<>>
              /\ rPc = "done" /\ rResponse.success /\ rResponse.status = 200
    /\ Len(rTrigger) + (IF rMcp = "ok" THEN 1 ELSE 0) <= 1

\* A send-message request whose MCP attempt returned an error result has
\* been delivered by the fallback, once.
C23_Witness ==
    /\ rPc = "done"
    /\ rRoute = "send-message"
    /\ rMcp = "isError"
    /\ rServiceCalls = <<"initialize", "sendMessage">>
    /\ Len(rTrigger) = 1
    /\ rResponse.success

\* C24: a request to the ai-message route whose body has no nangoConnectionId,
\* or no command, is answered with 400 and MISSING_REQUIRED_FIELD, and
\* neither the MCP tool nor the SlackService has been invoked and nothing
\* has been sent when it is answered; the same holds for the send-message,
\* channels and health routes when nangoConnectionId is missing.
C24_MissingFieldRejected ==
    [][/\ (Receive(body')
              /\ (body'.nangoConnectionId = "" \/ body'.command = ""))
           => /\ pc' = "done"
              /\ response'.status = 400
              /\ response'.code = "MISSING_REQUIRED_FIELD"
              /\ mcpResult' = ""
              /\ sendCalls' = <<>> /\ triggerCalls' = <<>>
       /\ (RouteReceive(rRoute', rBody', rSecretKey')
              /\ rBody'.nangoConnectionId = "")
           => /\ rPc' = "done"
              /\ rResponse'.status = 400
              /\ rResponse'.code = "MISSING_REQUIRED_FIELD"
              /\ rMcp' = ""
              /\ rServiceCalls' = <<>> /\ rTrigger' = <<>>]_vars

\* An ai-message request with a connection ID and no command has been
\* answered.
C24_Witness ==
    /\ pc = "done"
    /\ body.nangoConnectionId # ""
    /\ body.command = ""
    /\ response.code = "MISSING_REQUIRED_FIELD"
    /\ mcpResult = ""
    /\ sendCalls = <<>>

\* C29: when a send fails because authentication failed or the token
\* expired, the route answers with 401: a send-message request whose
\* fallback send Nango refused with token_expired is answered with 401.
C29_ExpiredTokenAnswers401 ==
    (rPc = "done" /\ rRoute = "send-message" /\ rTrigger # <<>>
                  /\ rOutcome = "token_expired")
        => rResponse.status = 401

\* The codes the default shouldRetry is documented to retry.
RetryableCodes == {"RATE_LIMITED", "SERVICE_UNAVAILABLE", "API_ERROR"}

\* C25: both retry helpers invoke fn at most maxAttempts times, return at
\* the first attempt that succeeds, stop after the first failure for which
\* shouldRetry is false, throw the error of the last attempt when none
\* succeeds, and wait min(baseDelay * backoffFactor^(attempt-1), maxDelay)
\* before each retry, so that no wait exceeds maxDelay and none follows the
\* final attempt.
C25_RetryContract ==
    /\ invocations <= retryOptions.maxAttempts
    /\ retryResult.kind = "returned" => retryPc = "done"
    /\ (retryPc = "done" /\ retryResult.kind = "threw")
           => retryResult.error = getErrorCode(lastError)
    /\ \A i \in 1..Len(waits) :
           /\ waits[i] = backoffDelay(retryOptions, i)
           /\ waits[i] <= retryOptions.maxDelay
    /\ retryPc = "done" => Len(waits) = invocations - 1

\* C26: with default options withRetry retries a failing fn whose error
\* code is RATE_LIMITED, SERVICE_UNAVAILABLE or API_ERROR up to 3 attempts
\* in total, and rethrows fn's own error at once for any other code.
C26_DefaultRetryPolicy ==
    (/\ retryFn = "withRetry" /\ retryOptions = DefaultOptions
     /\ retryPc = "done" /\ retryResult.kind = "threw")
        => /\ retryResult.error = getErrorCode(lastError)
           /\ lastError \in RetryableCodes => invocations = 3
           /\ lastError \notin RetryableCodes => waits = <<>>

C28_StuckUntilReload ==
    [][(regInitialized /\ regServers = {} /\ reloadPc = "idle")
           => regServers' = {}]_vars

====
